---- MODULE Spec2Model ----
(***************************************************************************)
(* A model of BasicOptionParser<char> (the OptionParser class): the        *)
(* declaration compiler addDeclaration, the registry m_declarations and    *)
(* the scanner realparse with parse_longoption, parse_multishort and       *)
(* parse_simpleshort.                                                      *)
(*                                                                         *)
(* A std::string is a sequence of one-character strings, indexed from 0    *)
(* by the helpers below as the C++ code indexes it.  The size_t loop index *)
(* of realparse is the variable i (0-based).  One ParseStep is one         *)
(* iteration of the for loop of realparse, with every call it makes.       *)
(***************************************************************************)
EXTENDS Integers, Sequences, FiniteSets, TLC

VARIABLES
    m_vargs,            \* std::vector<string>: the arguments being scanned
    m_positional,       \* std::vector<string>: the positional arguments
    m_declarations,     \* std::vector<Declaration*>: the registry
    m_stopif_funcs,     \* std::vector<StopIfCallback>
    m_dosoptsdeclared,  \* bool
    m_on_unknownoptfn,  \* UnknownOptCallback: "null", or what it returns
    i,                  \* realparse: the loop index
    stopparsing,        \* realparse: the local flag
    pc,                 \* where the caller is: "idle", "parsing", "done", "threw", "exited"
    raised,             \* the exception the last call threw, or NoError
    lastcall,           \* the last call of the public interface, with its arguments
    calls,              \* the user callbacks invoked so far, in order
    unknown_seen        \* the strings m_on_unknownoptfn was called with, in order

vars == <<m_vargs, m_positional, m_declarations, m_stopif_funcs, m_dosoptsdeclared,
          m_on_unknownoptfn, i, stopparsing, pc, raised, lastcall, calls, unknown_seen>>

(***************************************************************************)
(* Bounds of the model.                                                    *)
(***************************************************************************)
MaxArgs == 2
MaxDecls == 2
MaxStopIf == 1

(***************************************************************************)
(* Characters and strings.                                                 *)
(***************************************************************************)
\* CharT(): what std::string::operator[](size()) returns
NUL == "NUL"

\* string::npos
npos == -1

Letters == {"a", "b", "c", "d", "e", "f", "g", "h", "i", "j", "k", "l", "m",
            "n", "o", "p", "q", "r", "s", "t", "u", "v", "w", "x", "y", "z",
            "A", "I", "O", "V"}

Digits == {"0", "1", "2", "3", "4", "5", "6", "7", "8", "9"}

\* what a read outside a string's storage gives: whatever character is in
\* the memory next to it
Garbage == {NUL, "~"}

\* str[k] for 0 <= k <= size(); past that the read is outside the string and
\* gives g
CharAt(str, k, g) ==
    IF k >= 0 /\ k < Len(str) THEN str[k + 1]
    ELSE IF k = Len(str) THEN NUL
    ELSE g

\* str[k] where the code guarantees 0 <= k <= size()
At(str, k) == CharAt(str, k, NUL)

\* str.substr(pos)
substr(str, pos) == SubSeq(str, pos + 1, Len(str))

\* str.substr(pos, n)
substr2(str, pos, n) ==
    SubSeq(str, pos + 1, IF pos + n < Len(str) THEN pos + n ELSE Len(str))

\* find_first_of finding the last c of the string
find_last_of(str, c) ==
    IF \E k \in 1..Len(str) : str[k] = c
    THEN (CHOOSE k \in 1..Len(str) : str[k] = c /\ \A j \in (k + 1)..Len(str) : str[j] # c) - 1
    ELSE npos

\* str.find_first_of(c)
find_first_of(str, c) ==
    IF \E k \in 1..Len(str) : str[k] = c
    THEN (CHOOSE k \in 1..Len(str) : str[k] = c /\ \A j \in 1..(k - 1) : str[j] # c) - 1
    ELSE npos

\* isalphanum taking every character of a string for alphanumeric
isalphanum_any(c) == c # NUL

isalphanum(c) == c \in Letters \cup Digits \cup {"?", "!", "#"}

isvalidlongopt(str) == At(str, 0) = "-" /\ At(str, 1) = "-"

isvaliddosopt(str) == At(str, 0) = "/" /\ isalphanum(At(str, 1))

(***************************************************************************)
(* Exceptions.  kind is the exception class; what and arg are the text of  *)
(* the message and the option it names.                                    *)
(***************************************************************************)
NoError == [kind |-> "none", what |-> "", arg |-> <<>>]

\* throwError building its message and returning without a throw
throwError_swallowed(kind, what, arg) == NoError

throwError(kind, what, arg) == [kind |-> kind, what |-> what, arg |-> arg]

(***************************************************************************)
(* Callback: the two slots of the "bad variant".  A slot is "null", "user" *)
(* (a lambda of the caller) or "help" (the lambda of init, which prints    *)
(* the help text and calls std::exit).  fn is the shape of the lambda      *)
(* given to on(): "noval", "strval" or "help".                             *)
(***************************************************************************)
\* Callback with the lambda of init taken for a lambda that returns
Callback_help_returns(fn) ==
    [real_noval  |-> IF fn = "strval" THEN "null" ELSE "user",
     real_strval |-> IF fn = "strval" THEN "user" ELSE "null"]

\* Callback binding the lambda to both slots
Callback_both(fn) == [real_noval |-> "user", real_strval |-> "user"]

Callback(fn) ==
    [real_noval  |-> IF fn = "noval" THEN "user" ELSE IF fn = "help" THEN "help" ELSE "null",
     real_strval |-> IF fn = "strval" THEN "user" ELSE "null"]

LongOption(name, isgnu) == [name |-> name, isgnu |-> isgnu]

(***************************************************************************)
(* addDeclaration.  DeclLoopInit is the state of its locals before the     *)
(* loop, DeclLoopBody one iteration of the loop on the token str, and      *)
(* DeclLoop the loop from token k on, left at the first throw.             *)
(***************************************************************************)
DeclLoopInit ==
    [hadlongopts |-> FALSE, hadshortopts |-> FALSE,
     longwantvalue |-> FALSE, shortwantvalue |-> FALSE,
     shortnames |-> <<>>, longnames |-> <<>>,
     dos |-> FALSE, err |-> NoError]

DeclLoopBody(st, str) ==
    IF isvalidlongopt(str) \/ isvaliddosopt(str)
    THEN LET longbegin1 == At(str, 0)
             longbegin2 == At(str, 1)
             longend    == At(str, Len(str) - 1)
             longeq     == At(str, Len(str) - 2)
             isgnu      == longbegin1 = "-" /\ longbegin2 = "-"
         IN IF isgnu
            THEN LET want == longeq = "=" /\ longend = "?"
                     longname == IF want THEN substr2(substr(str, 2), 0, Len(str) - 4)
                                         ELSE substr(str, 2)
                 IN [st EXCEPT !.hadlongopts = TRUE,
                               !.longwantvalue = want,
                               !.longnames = Append(@, LongOption(longname, isgnu))]
            ELSE IF longbegin1 = "/" \/ longbegin1 = "-"
            THEN LET want == longeq = ":" /\ longend = "?"
                     longname == IF want THEN substr2(substr(str, 1), 0, Len(str) - 3)
                                         ELSE substr(str, 1)
                 IN [st EXCEPT !.hadlongopts = TRUE,
                               !.longwantvalue = want,
                               !.dos = TRUE,
                               !.longnames = Append(@, LongOption(longname, isgnu))]
            ELSE [st EXCEPT !.hadlongopts = TRUE,
                            !.err = throwError("Error", "impossible situation: failed to parse", str)]
    ELSE IF At(str, 0) = "-" /\ isalphanum(At(str, 1))
    THEN LET shortname == At(str, 1)
             shortend  == At(str, Len(str) - 1)
         IN [st EXCEPT !.hadshortopts = TRUE,
                       !.shortwantvalue = (shortend = "?" /\ shortend # shortname),
                       !.shortnames = Append(@, shortname)]
    ELSE [st EXCEPT !.err = throwError("Error", "unparseable option syntax", str)]

RECURSIVE DeclLoop(_, _, _)
DeclLoop(st, strs, k) ==
    IF k > Len(strs) \/ st.err # NoError THEN st
    ELSE DeclLoop(DeclLoopBody(st, strs[k]), strs, k + 1)

\* the first check after the loop: a long option wants a value, a short
\* option was declared and does not
LongNotShort(st) == st.longwantvalue /\ ~st.shortwantvalue /\ st.hadshortopts

\* ShortNotLong with the check left out
ShortNotLong_never(st) == FALSE

\* the second check after the loop: a short option wants a value, a long
\* option was declared and does not
ShortNotLong(st) == st.shortwantvalue /\ ~st.longwantvalue /\ st.hadlongopts

\* NeedValue left at false, the value a new Declaration has
NeedValue_never(longwantvalue, shortwantvalue) == FALSE

\* the value the code gives decl->needvalue
NeedValue(longwantvalue, shortwantvalue) == longwantvalue /\ shortwantvalue

\* The outcome of addDeclaration(strs, desc, fn): err is what it throws,
\* push whether the Declaration is pushed to m_declarations, decl the
\* Declaration, dos whether m_dosoptsdeclared was set on the way.
addDeclaration(strs, desc, fn) ==
    LET st == DeclLoop(DeclLoopInit, strs, 1)
        decl == [needvalue   |-> NeedValue(st.longwantvalue, st.shortwantvalue),
                 shortnames  |-> st.shortnames,
                 longnames   |-> st.longnames,
                 description |-> desc,
                 callback    |-> Callback(fn)]
    IN IF Len(strs) = 0
       THEN [err |-> NoError, push |-> FALSE, decl |-> decl, dos |-> FALSE]
       ELSE IF st.err # NoError
       THEN [err |-> st.err, push |-> FALSE, decl |-> decl, dos |-> st.dos]
       ELSE IF LongNotShort(st)
       THEN [err |-> throwError("Error", "long option ended in '=?', but short option did not", <<>>),
             push |-> FALSE, decl |-> decl, dos |-> st.dos]
       ELSE IF ShortNotLong(st)
       THEN [err |-> throwError("Error", "short option ended in '?', but long option did not", <<>>),
             push |-> FALSE, decl |-> decl, dos |-> st.dos]
       ELSE [err |-> NoError, push |-> TRUE, decl |-> decl, dos |-> st.dos]

\* Declaration::is(CharT c)
is_short(decl, c) == \E k \in 1..Len(decl.shortnames) : decl.shortnames[k] = c

\* Declaration::is(const string& s)
is_long(decl, s) == \E k \in 1..Len(decl.longnames) : decl.longnames[k].name = s

\* find_decl_short returning the last declaration with the short name
find_decl_short_last(name) ==
    IF \E k \in 1..Len(m_declarations) : is_short(m_declarations[k], name)
    THEN (CHOOSE k \in 1..Len(m_declarations) :
              /\ is_short(m_declarations[k], name)
              /\ \A j \in (k + 1)..Len(m_declarations) : ~is_short(m_declarations[j], name)) - 1
    ELSE npos

\* find_decl_short: the index (from 0) of the first declaration with the
\* short name, or npos when it returns false
find_decl_short(name) ==
    IF \E k \in 1..Len(m_declarations) : is_short(m_declarations[k], name)
    THEN (CHOOSE k \in 1..Len(m_declarations) :
              /\ is_short(m_declarations[k], name)
              /\ \A j \in 1..(k - 1) : ~is_short(m_declarations[j], name)) - 1
    ELSE npos

\* find_decl_long: likewise for a long name
find_decl_long(name) ==
    IF \E k \in 1..Len(m_declarations) : is_long(m_declarations[k], name)
    THEN (CHOOSE k \in 1..Len(m_declarations) :
              /\ is_long(m_declarations[k], name)
              /\ \A j \in 1..(k - 1) : ~is_long(m_declarations[j], name)) - 1
    ELSE npos

(***************************************************************************)
(* The scanner.  A handler works on a record acc of what one iteration of  *)
(* realparse has done so far: the callbacks it invoked (calls), the        *)
(* strings it gave to m_on_unknownoptfn (unk), the exception that left it  *)
(* (err), whether a callback called std::exit (exited), and the loop index *)
(* it holds by reference (iref).                                           *)
(***************************************************************************)
Acc(iref) == [calls |-> <<>>, unk |-> <<>>, err |-> NoError, exited |-> FALSE, iref |-> iref]

\* one invocation of a user callback: the declaration (index from 0), the
\* slot that was called and the string it was called with
Call(idx, shape, value) == [decl |-> idx, shape |-> shape, value |-> value]

\* invoke returning without calling the callback
invoke_silent(acc, idx) == acc

\* Callback::invoke() of declaration idx
invoke(acc, idx) ==
    LET cb == m_declarations[idx + 1].callback
    IN IF cb.real_noval = "null"
       THEN [acc EXCEPT !.err = throwError("runtime_error", "real_noval is NULL", <<>>)]
       ELSE [acc EXCEPT !.calls = Append(@, Call(idx, "noval", <<>>)),
                        !.exited = (cb.real_noval = "help")]

\* Callback::invoke(const string& s) of declaration idx
invoke_value(acc, idx, s) ==
    LET cb == m_declarations[idx + 1].callback
    IN IF cb.real_strval = "null"
       THEN [acc EXCEPT !.err = throwError("runtime_error", "real_strval is NULL", <<>>)]
       ELSE [acc EXCEPT !.calls = Append(@, Call(idx, "strval", s))]

\* invoke_on_unknown(const string& str): the string given to the handler
unknown_long(str) == <<"-", "-">> \o str

\* invoke_on_unknown(CharT opt): the string given to the handler
unknown_short(opt) == <<"-", opt>>

\* invoke_on_unknown_prox returning false when no handler is set
invoke_on_unknown_prox_lenient ==
    IF m_on_unknownoptfn = "null" THEN FALSE ELSE m_on_unknownoptfn = "true"

\* invoke_on_unknown_prox: what it returns, the handler returning what its
\* name says
invoke_on_unknown_prox ==
    IF m_on_unknownoptfn = "null" THEN TRUE ELSE m_on_unknownoptfn = "true"

\* invoke_or_throw<InvalidOptionError>(val, iref, howmuch, what, arg), where
\* optstr is what invoke_on_unknown(val) gives to invoke_on_unknown_prox
invoke_or_throw(acc, optstr, howmuch, what, arg) ==
    LET asked == m_on_unknownoptfn # "null"
        fatal == invoke_on_unknown_prox
        seen  == IF asked THEN Append(acc.unk, optstr) ELSE acc.unk
        tmp   == acc.iref + howmuch
    IN IF fatal
       THEN [acc EXCEPT !.unk = seen, !.err = throwError("InvalidOptionError", what, arg)]
       ELSE [acc EXCEPT !.unk = seen,
                        !.iref = IF tmp + 1 # Len(m_vargs) THEN tmp ELSE @]

\* TakesRemainder without the test for the first character
TakesRemainder_anywhere(decl, k) == decl.needvalue

\* parse_multishort: the test that sends a character of the bundle to the
\* branch that takes the rest of the bundle as its value
TakesRemainder(decl, k) == decl.needvalue /\ k = 0

\* BundleValue cut one character early: the value keeps the option character
BundleValue_whole(str) == substr(str, 0)

\* parse_multishort: the value of the first option of the bundle str
BundleValue(str) == substr(str, 1)

\* parse_multishort(str, iref) from the character at index k of str on; g is
\* what str[idx-1] reads when idx-1 is outside the string
RECURSIVE parse_multishort(_, _, _, _)
parse_multishort(acc, str, k, g) ==
    IF k >= Len(str) THEN acc
    ELSE LET idx == find_decl_short(At(str, k))
         IN IF idx # npos
            THEN LET decl == m_declarations[idx + 1]
                 IN IF TakesRemainder(decl, k)
                    THEN IF Len(str) > 1
                         THEN invoke_value(acc, idx, BundleValue(str))
                         ELSE [acc EXCEPT !.err = throwError("ValueNeededError",
                                   "expected a value", <<"-", CharAt(str, idx - 1, g)>>)]
                    ELSE IF decl.needvalue
                    THEN [acc EXCEPT !.err = throwError("ValueNeededError",
                              "unexpected option requiring a value", <<"-", CharAt(str, idx - 1, g)>>)]
                    ELSE LET done == invoke(acc, idx)
                         IN IF done.err # NoError \/ done.exited THEN done
                            ELSE parse_multishort(done, str, k + 1, g)
            ELSE invoke_or_throw(acc, unknown_short(At(str, k)), 0,
                                 "unknown short option", <<"-", At(str, k)>>)

\* NextIsValue without the test for a leading dash
NextIsValue_any(iref) == iref + 1 < Len(m_vargs)

\* parse_simpleshort: the two tests on the argument after the one at iref
NextIsValue(iref) ==
    /\ iref + 1 < Len(m_vargs)
    /\ At(m_vargs[iref + 2], 0) # "-"

\* parse_simpleshort(str, iref)
parse_simpleshort(acc, str) ==
    LET idx == find_decl_short(str)
    IN IF idx # npos
       THEN IF m_declarations[idx + 1].needvalue
            THEN IF NextIsValue(acc.iref)
                 THEN invoke_value([acc EXCEPT !.iref = @ + 1], idx, m_vargs[acc.iref + 2])
                 ELSE [acc EXCEPT !.err = throwError("ValueNeededError", "expected a value", <<"-", str>>)]
            ELSE invoke(acc, idx)
       ELSE invoke_or_throw(acc, unknown_short(str), 0, "unknown option", <<"-", str>>)

\* LongValue cut one character early: the value keeps its '='
LongValue_keeps_eq(nodash, eqpos) == substr(nodash, eqpos - 2)

\* parse_longoption: the value, nodash cut after the '=' that is at eqpos
\* in the argument
LongValue(nodash, eqpos) == substr(nodash, eqpos - 1)

\* parse_longoption(argstring, iref)
parse_longoption(acc, argstring) ==
    LET nodash == substr(argstring, 2)
        eqpos  == find_first_of(argstring, "=")
        name   == IF eqpos = npos THEN nodash ELSE substr2(nodash, 0, eqpos - 2)
        idx    == find_decl_long(name)
    IN IF idx # npos
       THEN IF m_declarations[idx + 1].needvalue
            THEN IF eqpos = npos
                 THEN [acc EXCEPT !.err = throwError("ValueNeededError", "longoption: expected a value", name)]
                 ELSE invoke_value(acc, idx, LongValue(nodash, eqpos))
            ELSE invoke(acc, idx)
       ELSE invoke_or_throw(acc, unknown_long(name), 0, "unknown option", name)

\* the lambda of stopIfSawPositional testing for more than one positional
StopIfCallback_late(cb) == Len(m_positional) > 1

\* a StopIfCallback called on the parser: the lambda of stopIfSawPositional,
\* or a lambda of the caller that returns true while nothing is positional
StopIfCallback(cb) ==
    CASE cb = "sawPositional" -> Len(m_positional) > 0
      [] cb = "nothingPositional" -> Len(m_positional) = 0
      [] OTHER -> FALSE

\* the loop over m_stopif_funcs at the head of an iteration of realparse
AnyStopIf == \E k \in 1..Len(m_stopif_funcs) : StopIfCallback(m_stopif_funcs[k])

\* StopFlag forgetting what the earlier iterations set
StopFlag_forgetful(flag, any) == any

\* realparse: stopparsing after the loop over m_stopif_funcs, flag being
\* its value before the loop and any whether a callback returned true
StopFlag(flag, any) == flag \/ any

\* IsSeparator without the test of the flag
IsSeparator_always(arg, stop) == arg = <<"-", "-">>

\* realparse: the test for "--" at the head of an iteration, stop being
\* the flag after the stop_if callbacks
IsSeparator(arg, stop) == arg = <<"-", "-">> /\ ~stop

\* IsOptionArg testing for a non-empty argument instead of a dash
IsOptionArg_nonempty(arg) == At(arg, 0) # NUL

\* realparse: the test that sends an argument to the option branch
IsOptionArg(arg) == At(arg, 0) = "-"

\* IsBundle with the size compared to 2
IsBundle_three(nodash) == Len(nodash) > 2

\* realparse: the test that sends the argument without its dash to
\* parse_multishort
IsBundle(nodash) == Len(nodash) > 1

\* the option branch of realparse for the argument arg at index i
Dispatch(arg, g) ==
    IF At(arg, 1) = "-"
    THEN parse_longoption(Acc(i), arg)
    ELSE LET nodash == substr(arg, 1)
         IN IF IsBundle(nodash)
            THEN parse_multishort(Acc(i), nodash, 0, g)
            ELSE parse_simpleshort(Acc(i), At(nodash, 0))

(***************************************************************************)
(* The inputs: the token sets given to on(), and the argument lists given  *)
(* to parse().                                                             *)
(***************************************************************************)
D_out     == [strs |-> << <<"-", "o", "?">>, <<"-", "-", "o", "u", "t", "=", "?">> >>,
              desc |-> "set output file name", fn |-> "strval"]

D_verbose == [strs |-> << <<"-", "v">> >>, desc |-> "toggle verbose output", fn |-> "noval"]

D_debug   == [strs |-> << <<"-", "d">> >>, desc |-> "toggle debug mode", fn |-> "noval"]

D_mixed_short == [strs |-> << <<"-", "o", "?">>, <<"-", "-", "o", "u", "t">> >>,
                  desc |-> "short with marker, long without", fn |-> "strval"]

D_mixed_long  == [strs |-> << <<"-", "o">>, <<"-", "-", "o", "u", "t", "=", "?">> >>,
                  desc |-> "long with marker, short without", fn |-> "strval"]

DeclMenu == {D_out, D_verbose, D_debug, D_mixed_short, D_mixed_long}

\* arguments
A_o      == <<"-", "o">>
A_v      == <<"-", "v">>
A_x      == <<"x">>
A_dashes == <<"-", "-">>
A_out_x  == <<"-", "-", "o", "u", "t", "=", "x">>
A_bogus  == <<"-", "-", "b", "o", "g", "u", "s">>
A_help   == <<"-", "-", "h", "e", "l", "p">>
A_h      == <<"-", "h">>
A_dash   == <<"-">>
A_5      == <<"-", "5">>
A_empty  == <<>>
A_ox     == <<"-", "o", "x">>
A_ov     == <<"-", "o", "v">>
A_vo     == <<"-", "v", "o">>
A_vd     == <<"-", "v", "d">>
A_dv     == <<"-", "d", "v">>
A_vv     == <<"-", "v", "v">>
A_xv     == <<"-", "x", "v">>
A_vofile == <<"-", "v", "o", "f", "i", "l", "e">>
A_out    == <<"-", "-", "o", "u", "t">>
A_d      == <<"-", "d">>
A_bogus_1 == <<"-", "-", "b", "o", "g", "u", "s", "=", "1">>

\* the arguments every list of at most MaxArgs arguments is made of
Tokens == {A_o, A_x, A_v, A_dashes, A_out_x, A_bogus}

\* further argument lists: those of the properties the specification
\* states, and the cases around them
Examples ==
    { <<A_ox>>, <<A_ov, A_x>>, <<A_vofile>>, <<A_vo>>, <<A_vo, A_x>>,
      <<A_vd>>, <<A_dv>>, <<A_vv>>, <<A_vd, A_x>>, <<A_xv>>, <<A_xv, A_x>>,
      <<A_5>>, <<A_5, A_x>>, <<A_dash>>,
      <<A_o, A_help>>, <<A_o, A_dash>>, <<A_o, A_5>>, <<A_o, A_empty>>,
      <<A_help>>, <<A_h, A_v>>,
      <<A_v, A_dashes, A_v>>, <<A_x, A_v, A_x>>,
      <<A_out>>, <<A_out, A_x>>, <<A_v, A_out>>,
      <<A_vd, A_v>>, <<A_v, A_d, A_v>>,
      <<A_v, A_bogus, A_v>>, <<A_x, A_h, A_x>>, <<A_v, A_help, A_v>>,
      <<A_bogus_1>>, <<A_bogus_1, A_x>>,
      << <<"a">>, <<"b">>, <<"c">> >> }

SeqsUpTo(S, n) == UNION { [1..k -> S] : k \in 0..n }

ArgLists == SeqsUpTo(Tokens, MaxArgs) \cup Examples

ProgramName == <<"p", "r", "o", "g">>

(***************************************************************************)
(* The state after BasicOptionParser(declhelp): init(declhelp) declares    *)
(* -h and --help when declhelp is true.                                    *)
(***************************************************************************)
HelpStrs == << <<"-", "h">>, <<"-", "-", "h", "e", "l", "p">> >>

init(declhelp) ==
    IF declhelp THEN <<addDeclaration(HelpStrs, "show this help", "help").decl>> ELSE <<>>

Init ==
    /\ m_vargs = <<>>
    /\ m_positional = <<>>
    /\ \E declhelp \in BOOLEAN : m_declarations = init(declhelp)
    /\ m_stopif_funcs = <<>>
    /\ m_dosoptsdeclared = FALSE
    /\ m_on_unknownoptfn = "null"
    /\ i = 0
    /\ stopparsing = FALSE
    /\ pc = "idle"
    /\ raised = NoError
    /\ lastcall = [op |-> "BasicOptionParser", strs |-> <<>>, desc |-> "", fn |-> ""]
    /\ calls = <<>>
    /\ unknown_seen = <<>>

\* the declarations made by the caller, not by init
UserDecls == { k \in 1..Len(m_declarations) : m_declarations[k].callback.real_noval # "help" }

\* on(strs, desc, fn)
On(strs, desc, fn) ==
    /\ pc = "idle"
    /\ Cardinality(UserDecls) < MaxDecls
    /\ LET r == addDeclaration(strs, desc, fn)
       IN /\ m_declarations' = IF r.push THEN Append(m_declarations, r.decl) ELSE m_declarations
          /\ m_dosoptsdeclared' = (m_dosoptsdeclared \/ r.dos)
          /\ raised' = r.err
    /\ lastcall' = [op |-> "on", strs |-> strs, desc |-> desc, fn |-> fn]
    /\ UNCHANGED <<m_vargs, m_positional, m_stopif_funcs, m_on_unknownoptfn, i,
                   stopparsing, pc, calls, unknown_seen>>

\* onUnknownOption(fn), fn a handler that returns ret whatever it is given
OnUnknownOption(ret) ==
    /\ pc = "idle"
    /\ m_on_unknownoptfn' = ret
    /\ raised' = NoError
    /\ lastcall' = [op |-> "onUnknownOption", strs |-> <<>>, desc |-> "", fn |-> ret]
    /\ UNCHANGED <<m_vargs, m_positional, m_declarations, m_stopif_funcs,
                   m_dosoptsdeclared, i, stopparsing, pc, calls, unknown_seen>>

\* stopIf(cb)
stopIf(cb) ==
    /\ m_stopif_funcs' = Append(m_stopif_funcs, cb)
    /\ raised' = NoError
    /\ UNCHANGED <<m_vargs, m_positional, m_declarations, m_dosoptsdeclared,
                   m_on_unknownoptfn, i, stopparsing, pc, calls, unknown_seen>>

\* stopIfSawPositional()
StopIfSawPositional ==
    /\ pc = "idle"
    /\ Len(m_stopif_funcs) < MaxStopIf
    /\ stopIf("sawPositional")
    /\ lastcall' = [op |-> "stopIfSawPositional", strs |-> <<>>, desc |-> "", fn |-> ""]

\* the entry of realparse, and its return when the loop has nothing to do
realparse_enter(vargs) ==
    /\ i' = 0
    /\ stopparsing' = FALSE
    /\ pc' = IF Len(vargs) > 0 THEN "parsing" ELSE "done"
    /\ raised' = NoError

\* parse(const std::vector<string>& args)
ParseVector(args) ==
    /\ pc = "idle"
    /\ m_vargs' = args
    /\ realparse_enter(args)
    /\ lastcall' = [op |-> "parse", strs |-> args, desc |-> "", fn |-> ""]
    /\ UNCHANGED <<m_positional, m_declarations, m_stopif_funcs, m_dosoptsdeclared,
                   m_on_unknownoptfn, calls, unknown_seen>>

\* parse(int argc, char** argv, int begin)
ParseArgv(argv, begin) ==
    /\ pc = "idle"
    /\ m_vargs' = m_vargs \o SubSeq(argv, begin + 1, Len(argv))
    /\ realparse_enter(m_vargs')
    /\ lastcall' = [op |-> "parse", strs |-> SubSeq(argv, begin + 1, Len(argv)), desc |-> "", fn |-> ""]
    /\ UNCHANGED <<m_positional, m_declarations, m_stopif_funcs, m_dosoptsdeclared,
                   m_on_unknownoptfn, calls, unknown_seen>>

\* the end of an iteration of realparse that left the index at iref: i++,
\* and the return when the loop condition fails
realparse_next(iref) ==
    /\ i' = iref + 1
    /\ pc' = IF iref + 1 < Len(m_vargs) THEN "parsing" ELSE "done"
    /\ raised' = NoError

\* one iteration of the loop of realparse
ParseStep(g) ==
    /\ pc = "parsing"
    /\ i < Len(m_vargs)
    /\ LET arg  == m_vargs[i + 1]
           stop == StopFlag(stopparsing, AnyStopIf)
       IN IF IsSeparator(arg, stop)
          THEN /\ stopparsing' = TRUE
               /\ realparse_next(i)
               /\ UNCHANGED <<m_positional, calls, unknown_seen>>
          ELSE IF stop
          THEN /\ stopparsing' = stop
               /\ m_positional' = Append(m_positional, arg)
               /\ realparse_next(i)
               /\ UNCHANGED <<calls, unknown_seen>>
          ELSE IF IsOptionArg(arg)
          THEN LET r == Dispatch(arg, g)
               IN /\ stopparsing' = stop
                  /\ calls' = calls \o r.calls
                  /\ unknown_seen' = unknown_seen \o r.unk
                  /\ UNCHANGED m_positional
                  /\ IF r.err # NoError
                     THEN /\ raised' = r.err
                          /\ pc' = "threw"
                          /\ i' = r.iref
                     ELSE IF r.exited
                     THEN /\ raised' = NoError
                          /\ pc' = "exited"
                          /\ i' = r.iref
                     ELSE realparse_next(r.iref)
          ELSE /\ stopparsing' = stop
               /\ m_positional' = Append(m_positional, arg)
               /\ realparse_next(i)
               /\ UNCHANGED <<calls, unknown_seen>>
    /\ UNCHANGED <<m_vargs, m_declarations, m_stopif_funcs, m_dosoptsdeclared,
                   m_on_unknownoptfn, lastcall>>

Next ==
    \/ \E d \in DeclMenu : On(d.strs, d.desc, d.fn)
    \/ \E ret \in {"true", "false"} : OnUnknownOption(ret)
    \/ StopIfSawPositional
    \/ \E args \in ArgLists : ParseVector(args)
    \/ \E args \in ArgLists : ParseArgv(<<ProgramName>> \o args, 1)
    \/ \E g \in Garbage : ParseStep(g)

Spec == Init /\ [][Next]_vars

(***************************************************************************)
(* Vocabulary of the properties.                                           *)
(***************************************************************************)
\* parse() has returned, thrown, or ended the process
Finished == pc \in {"done", "threw", "exited"}

\* the descriptions of the declarations the caller made, in registry order
UserDescs ==
    LET u == SelectSeq(m_declarations, LAMBDA d : d.callback.real_noval # "help")
    IN [k \in 1..Len(u) |-> u[k].description]

\* the caller registered exactly the menu entries of ds (any order, once each)
RegisteredOnly(ds) ==
    /\ Len(UserDescs) = Cardinality(ds)
    /\ { UserDescs[k] : k \in 1..Len(UserDescs) } = { d.desc : d \in ds }

\* the index (from 0) of the first declaration made from the menu entry d
IdxOf(d) ==
    (CHOOSE k \in 1..Len(m_declarations) :
         /\ m_declarations[k].description = d.desc
         /\ \A j \in 1..(k - 1) : m_declarations[j].description # d.desc) - 1

\* the characters a short option can be declared with
OptionChars == Letters \cup Digits \cup {"?", "!", "#"}

\* the declaration a short option character resolves to
ShortDecl(c) == m_declarations[find_decl_short(c) + 1]

\* c is declared, needs a value and has a with-value callback
ValueOption(c) ==
    /\ find_decl_short(c) # npos
    /\ ShortDecl(c).needvalue
    /\ ShortDecl(c).callback.real_strval = "user"

\* c is declared, needs no value and has a no-value callback of the caller
FlagOption(c) ==
    /\ find_decl_short(c) # npos
    /\ ~ShortDecl(c).needvalue
    /\ ShortDecl(c).callback.real_noval = "user"

\* the calls a run of flag characters makes, in their order
FlagCalls(chars) == [k \in 1..Len(chars) |-> Call(find_decl_short(chars[k]), "noval", <<>>)]

\* an iteration of realparse is about to classify the argument at i as an
\* option or a positional (the scan has not stopped and does not stop here)
Scanning ==
    /\ pc = "parsing"
    /\ ~stopparsing
    /\ ~AnyStopIf
    /\ m_vargs[i + 1] # A_dashes

\* the iteration ended without an exception or exit and the loop goes on
\* at index n
GoesOnAt(n) ==
    /\ i' = n
    /\ pc' = IF n < Len(m_vargs) THEN "parsing" ELSE "done"
    /\ raised' = NoError

(***************************************************************************)
(* C1.  With the one declaration {"-o?", "--out=?"} and a with-value       *)
(* callback, each of ["--out=x"], ["-o","x"] and ["-ox"] is scanned to the *)
(* end, invokes that callback exactly once, with "x", and leaves the       *)
(* positional list empty.                                                  *)
(***************************************************************************)
C1_RoundTrip ==
    (/\ Finished
     /\ RegisteredOnly({D_out})
     /\ m_vargs \in {<<A_out_x>>, <<A_o, A_x>>, <<A_ox>>})
    => /\ pc = "done"
       /\ calls = <<Call(IdxOf(D_out), "strval", A_x)>>
       /\ m_positional = <<>>

C1_Witness ==
    /\ pc = "done"
    /\ RegisteredOnly({D_out})
    /\ m_vargs = <<A_out_x>>
    /\ calls = <<Call(IdxOf(D_out), "strval", A_x)>>
    /\ m_positional = <<>>

(***************************************************************************)
(* C2.  An iteration on a two-character argument -c, c a declared option   *)
(* that needs a value: if a next argument exists and does not start with   *)
(* '-', the callback is invoked once with it and the loop goes on after    *)
(* it, nothing being added to the positional list; otherwise               *)
(* ValueNeededError is thrown and no callback is invoked.                  *)
(***************************************************************************)
C2_SimpleShortValue ==
    [][ \A c \in OptionChars :
          (Scanning /\ m_vargs[i + 1] = <<"-", c>> /\ ValueOption(c))
          => IF i + 1 < Len(m_vargs) /\ At(m_vargs[i + 2], 0) # "-"
             THEN /\ calls' = Append(calls, Call(find_decl_short(c), "strval", m_vargs[i + 2]))
                  /\ GoesOnAt(i + 2)
                  /\ m_positional' = m_positional
             ELSE /\ pc' = "threw"
                  /\ raised'.kind = "ValueNeededError"
                  /\ calls' = calls
                  /\ m_positional' = m_positional ]_vars

C2_Witness ==
    /\ pc = "threw"
    /\ raised.kind = "ValueNeededError"
    /\ RegisteredOnly({D_out})
    /\ m_vargs = <<A_o, A_5>>
    /\ i = 0
    /\ calls = <<>>
    /\ m_positional = <<>>

(***************************************************************************)
(* C3.  An iteration on an argument made of a dash and two or more         *)
(* characters, the first of them a declared option that needs a value:     *)
(* the callback is invoked once with all the characters after the first,   *)
(* no other callback is invoked, and the loop goes on at the next          *)
(* argument.  So ["-ov","x"], with o needing a value and v a flag, invokes *)
(* o's callback once with "v", not v's, and leaves positional = ["x"].     *)
(***************************************************************************)
C3_Step ==
    \A c \in OptionChars :
        (/\ Scanning
         /\ Len(m_vargs[i + 1]) >= 3
         /\ SubSeq(m_vargs[i + 1], 1, 2) = <<"-", c>>
         /\ ValueOption(c))
        => /\ calls' = Append(calls, Call(find_decl_short(c), "strval",
                                          SubSeq(m_vargs[i + 1], 3, Len(m_vargs[i + 1]))))
           /\ GoesOnAt(i + 1)
           /\ m_positional' = m_positional

C3_Example ==
    (/\ Finished
     /\ RegisteredOnly({D_out, D_verbose})
     /\ m_vargs = <<A_ov, A_x>>)
    => /\ pc = "done"
       /\ calls = <<Call(IdxOf(D_out), "strval", <<"v">>)>>
       /\ m_positional = <<A_x>>

\* C3: the example holds in every state and the step in every iteration
C3_FirstTakesRemainder == []C3_Example /\ [][C3_Step]_vars

C3_Witness ==
    /\ pc = "done"
    /\ RegisteredOnly({D_out, D_verbose})
    /\ m_vargs = <<A_ov, A_x>>
    /\ calls = <<Call(IdxOf(D_out), "strval", <<"v">>)>>
    /\ m_positional = <<A_x>>

(***************************************************************************)
(* C4.  An iteration on a bundle whose character at a position k after the *)
(* first is a declared option that needs a value, the characters before it *)
(* being declared flags: the callbacks of those flags are invoked, then    *)
(* ValueNeededError is thrown; the callback of the option at k is not      *)
(* invoked, with no part of the bundle and no later argument.              *)
(***************************************************************************)
C4_MidBundleValueNeeded ==
    [][ Scanning =>
          \A k \in 3..Len(m_vargs[i + 1]) :
            (/\ m_vargs[i + 1][1] = "-"
             /\ \A j \in 2..(k - 1) : FlagOption(m_vargs[i + 1][j])
             /\ find_decl_short(m_vargs[i + 1][k]) # npos
             /\ ShortDecl(m_vargs[i + 1][k]).needvalue)
            => /\ pc' = "threw"
               /\ raised'.kind = "ValueNeededError"
               /\ calls' = calls \o FlagCalls(SubSeq(m_vargs[i + 1], 2, k - 1))
               /\ m_positional' = m_positional
               /\ i' = i ]_vars

C4_Witness ==
    /\ pc = "threw"
    /\ raised.kind = "ValueNeededError"
    /\ RegisteredOnly({D_out, D_verbose})
    /\ m_vargs = <<A_vo, A_x>>
    /\ calls = <<Call(IdxOf(D_verbose), "noval", <<>>)>>
    /\ m_positional = <<>>

(***************************************************************************)
(* C5.  The claim as stated: with -v declared without a value and -o with  *)
(* one, ["-vofile"] invokes v's callback and then o's callback with        *)
(* "file", without an error.                                               *)
(***************************************************************************)
C5_AsStated ==
    (/\ Finished
     /\ RegisteredOnly({D_verbose, D_out})
     /\ m_vargs = <<A_vofile>>)
    => /\ pc = "done"
       /\ calls = <<Call(IdxOf(D_verbose), "noval", <<>>),
                    Call(IdxOf(D_out), "strval", <<"f", "i", "l", "e">>)>>

(***************************************************************************)
(* C5, amended.  With -v declared without a value and -o with one,         *)
(* ["-vofile"] invokes v's callback and then throws ValueNeededError at    *)
(* the character o; o's callback is not invoked.                           *)
(***************************************************************************)
C5_Amended ==
    (/\ Finished
     /\ RegisteredOnly({D_verbose, D_out})
     /\ m_vargs = <<A_vofile>>)
    => /\ pc = "threw"
       /\ raised.kind = "ValueNeededError"
       /\ calls = <<Call(IdxOf(D_verbose), "noval", <<>>)>>
       /\ m_positional = <<>>

C5_Witness ==
    /\ pc = "threw"
    /\ raised.kind = "ValueNeededError"
    /\ RegisteredOnly({D_verbose, D_out})
    /\ m_vargs = <<A_vofile>>
    /\ calls = <<Call(IdxOf(D_verbose), "noval", <<>>)>>

(***************************************************************************)
(* C6.  An iteration on a bundle of two or more characters, each a         *)
(* declared flag with a no-value callback: the callback of each character  *)
(* is invoked once, in the order of the characters in the bundle, nothing  *)
(* is added to the positional list and the loop goes on at the next        *)
(* argument.                                                               *)
(***************************************************************************)
C6_FlagBundle ==
    [][ (/\ Scanning
         /\ Len(m_vargs[i + 1]) >= 3
         /\ m_vargs[i + 1][1] = "-"
         /\ \A j \in 2..Len(m_vargs[i + 1]) : FlagOption(m_vargs[i + 1][j]))
        => /\ calls' = calls \o FlagCalls(SubSeq(m_vargs[i + 1], 2, Len(m_vargs[i + 1])))
           /\ GoesOnAt(i + 1)
           /\ m_positional' = m_positional ]_vars

\* -dv with v declared before d: d's callback, then v's
C6_Witness ==
    /\ pc = "done"
    /\ UserDescs = <<D_verbose.desc, D_debug.desc>>
    /\ m_vargs = <<A_dv>>
    /\ calls = <<Call(IdxOf(D_debug), "noval", <<>>), Call(IdxOf(D_verbose), "noval", <<>>)>>
    /\ m_positional = <<>>

\* the name of a long argument: what is between "--" and the first '='
LongNameOf(arg) ==
    LET eqs == { k \in 3..Len(arg) : arg[k] = "=" }
    IN IF eqs = {} THEN SubSeq(arg, 3, Len(arg))
       ELSE SubSeq(arg, 3, (CHOOSE k \in eqs : \A j \in eqs : k <= j) - 1)

UnknownArg(arg) ==
    /\ Len(arg) >= 2
    /\ arg[1] = "-"
    /\ IF arg[2] = "-"
       THEN \A k \in 1..Len(m_declarations) : ~is_long(m_declarations[k], LongNameOf(arg))
       ELSE \A k \in 1..Len(m_declarations) : ~is_short(m_declarations[k], arg[2])

(***************************************************************************)
(* C7.  An iteration on an argument that looks like an option and matches  *)
(* no declaration (a long argument whose name is not declared, or a dash   *)
(* followed by a character that is not declared): when no handler is set   *)
(* or the handler returns true, InvalidOptionError is thrown; when the     *)
(* handler returns false, nothing is thrown, the argument is not added to  *)
(* the positional list, no callback is invoked and the loop goes on at     *)
(* the next argument.  So ["--bogus","x"] with a handler that returns      *)
(* false gives positional = ["x"].                                         *)
(***************************************************************************)
C7_Step ==
    (Scanning /\ UnknownArg(m_vargs[i + 1]))
    => /\ calls' = calls
       /\ m_positional' = m_positional
       /\ IF m_on_unknownoptfn = "false"
          THEN GoesOnAt(i + 1)
          ELSE /\ pc' = "threw"
               /\ raised'.kind = "InvalidOptionError"

C7_Example ==
    (/\ Finished
     /\ m_on_unknownoptfn = "false"
     /\ m_vargs = <<A_bogus, A_x>>)
    => /\ pc = "done"
       /\ raised = NoError
       /\ m_positional = <<A_x>>

\* C7: the example holds in every state and the step in every iteration
C7_UnknownOption == []C7_Example /\ [][C7_Step]_vars

C7_Witness ==
    /\ pc = "done"
    /\ m_on_unknownoptfn = "false"
    /\ m_vargs = <<A_bogus, A_x>>
    /\ unknown_seen = <<A_bogus>>
    /\ m_positional = <<A_x>>
    /\ calls = <<>>

(***************************************************************************)
(* C8.  With no stop predicate registered: an iteration on "--" while the  *)
(* scan has not stopped stops it, adds nothing to the positional list and  *)
(* invokes nothing; every iteration after the scan has stopped appends its *)
(* argument to the positional list as it is and invokes nothing.  So       *)
(* ["-v","--","-v"] with -v declared invokes v's callback once and gives   *)
(* positional = ["-v"].                                                    *)
(***************************************************************************)
C8_Step ==
    (pc = "parsing" /\ m_stopif_funcs = <<>>)
    => /\ stopparsing
          => /\ m_positional' = Append(m_positional, m_vargs[i + 1])
             /\ calls' = calls
             /\ stopparsing'
             /\ GoesOnAt(i + 1)
       /\ (~stopparsing /\ m_vargs[i + 1] = A_dashes)
          => /\ m_positional' = m_positional
             /\ calls' = calls
             /\ stopparsing'
             /\ GoesOnAt(i + 1)

C8_Example ==
    (/\ Finished
     /\ m_stopif_funcs = <<>>
     /\ RegisteredOnly({D_verbose})
     /\ m_vargs = <<A_v, A_dashes, A_v>>)
    => /\ pc = "done"
       /\ calls = <<Call(IdxOf(D_verbose), "noval", <<>>)>>
       /\ m_positional = <<A_v>>

\* C8: the example holds in every state and the step in every iteration
C8_Separator == []C8_Example /\ [][C8_Step]_vars

C8_Witness ==
    /\ pc = "done"
    /\ m_stopif_funcs = <<>>
    /\ RegisteredOnly({D_verbose})
    /\ m_vargs = <<A_v, A_dashes, A_v>>
    /\ calls = <<Call(IdxOf(D_verbose), "noval", <<>>)>>
    /\ m_positional = <<A_v>>
    /\ stopparsing

(***************************************************************************)
(* C9.  An iteration on an argument that does not start with '-' appends   *)
(* it to the positional list and invokes no callback.  So a list of such   *)
(* arguments, ["a","b","c"] among them, is scanned to the end with         *)
(* positional equal to the list and no callback invoked, whatever is       *)
(* declared.                                                               *)
(***************************************************************************)
C9_Step ==
    (pc = "parsing" /\ At(m_vargs[i + 1], 0) # "-")
    => /\ m_positional' = Append(m_positional, m_vargs[i + 1])
       /\ calls' = calls
       /\ GoesOnAt(i + 1)

C9_Example ==
    (/\ Finished
     /\ \A k \in 1..Len(m_vargs) : At(m_vargs[k], 0) # "-")
    => /\ pc = "done"
       /\ m_positional = m_vargs
       /\ calls = <<>>

\* C9: the example holds in every state and the step in every iteration
C9_Positional == []C9_Example /\ [][C9_Step]_vars

C9_Witness ==
    /\ pc = "done"
    /\ RegisteredOnly({})
    /\ Len(m_declarations) = 1
    /\ m_vargs = << <<"a">>, <<"b">>, <<"c">> >>
    /\ m_positional = << <<"a">>, <<"b">>, <<"c">> >>
    /\ calls = <<>>

\* the token is longer than marker and ends with it
EndsWith(token, marker) ==
    /\ Len(token) > Len(marker)
    /\ SubSeq(token, Len(token) - Len(marker) + 1, Len(token)) = marker

MixedPair(strs) ==
    /\ Len(strs) = 2
    /\ \E a, b \in 1..2 :
         /\ a # b
         /\ Len(strs[a]) >= 2 /\ strs[a][1] = "-" /\ strs[a][2] # "-"
         /\ Len(strs[b]) >= 3 /\ SubSeq(strs[b], 1, 2) = <<"-", "-">>
         /\ (Len(strs[a]) >= 3 /\ EndsWith(strs[a], <<"?">>)) # EndsWith(strs[b], <<"=", "?">>)

(***************************************************************************)
(* C10.  on() with a token set of one short and one long spelling, of      *)
(* which exactly one carries its value marker ("?" for the short one,      *)
(* "=?" for the long one), throws Error and leaves the registry as it was. *)
(***************************************************************************)
C10_MixedMarkersRejected ==
    [][ (pc = "idle" /\ lastcall'.op = "on" /\ MixedPair(lastcall'.strs))
        => /\ raised'.kind = "Error"
           /\ m_declarations' = m_declarations ]_vars

C10_Witness ==
    /\ lastcall.op = "on"
    /\ lastcall.strs = D_mixed_short.strs
    /\ raised.kind = "Error"
    /\ raised.what = "short option ended in '?', but long option did not"
    /\ \A k \in 1..Len(m_declarations) : m_declarations[k].description # D_mixed_short.desc

(***************************************************************************)
(* Registration.  SpecReg is the parser with token sets of one kind of     *)
(* spelling only, of two spellings of one kind and of three spellings      *)
(* given to on(), and the arguments that name them given to parse().       *)
(***************************************************************************)
D_include_short == [strs |-> << <<"-", "I", "?">> >>,
                    desc |-> "add an include path (short spelling)", fn |-> "strval"]

D_include_long  == [strs |-> << <<"-", "-", "i", "n", "c", "l", "u", "d", "e", "=", "?">> >>,
                    desc |-> "add an include path (long spelling)", fn |-> "strval"]

D_three      == [strs |-> << <<"-", "o", "?">>, <<"-", "-", "o", "u", "t", "p", "u", "t">>,
                             <<"-", "-", "o", "u", "t", "=", "?">> >>,
                 desc |-> "three spellings, the last with marker", fn |-> "strval"]

D_three_last == [strs |-> << <<"-", "o", "?">>, <<"-", "-", "o", "u", "t", "=", "?">>,
                             <<"-", "-", "o", "u", "t", "p", "u", "t">> >>,
                 desc |-> "three spellings, the last without marker", fn |-> "strval"]

D_two_long   == [strs |-> << <<"-", "-", "o", "u", "t", "=", "?">>,
                             <<"-", "-", "o", "u", "t", "p", "u", "t">> >>,
                 desc |-> "two long spellings", fn |-> "strval"]

D_two_short  == [strs |-> << <<"-", "o", "?">>, <<"-", "O">> >>,
                 desc |-> "two short spellings", fn |-> "strval"]

RegMenu == {D_out, D_verbose, D_include_short, D_include_long,
            D_three, D_three_last, D_two_long, D_two_short}

A_I           == <<"-", "I">>
A_foo         == <<"f", "o", "o">>
A_Ifoo        == <<"-", "I", "f", "o", "o">>
A_include_foo == <<"-", "-", "i", "n", "c", "l", "u", "d", "e", "=", "f", "o", "o">>

RegArgs == { <<>>, <<A_Ifoo>>, <<A_include_foo>>, <<A_I, A_foo>>, <<A_ox>>, <<A_o, A_x>>,
             <<A_out_x>>, <<A_v>> }

NextReg ==
    \/ \E d \in RegMenu : On(d.strs, d.desc, d.fn)
    \/ \E args \in RegArgs : ParseVector(args)
    \/ \E g \in Garbage : ParseStep(g)

SpecReg == Init /\ [][NextReg]_vars

\* the token is a long spelling
IsLongSpelling(token) == Len(token) >= 2 /\ token[1] = "-" /\ token[2] = "-"

\* the token carries the value marker of its kind
Marked(token) ==
    IF IsLongSpelling(token) THEN EndsWith(token, <<"=", "?">>)
    ELSE Len(token) >= 3 /\ EndsWith(token, <<"?">>)

AllMarked(strs) == \A k \in 1..Len(strs) : Marked(strs[k])

Disagree(strs) == \E a, b \in 1..Len(strs) : Marked(strs[a]) # Marked(strs[b])

(***************************************************************************)
(* C11.  The claim as stated: on() with a token set in which two spellings *)
(* disagree on the value marker throws and registers nothing; and when     *)
(* on() registers a declaration, its needvalue is true exactly when every  *)
(* spelling of the set carries the marker.                                 *)
(***************************************************************************)
C11_AsStated ==
    [][ (pc = "idle" /\ lastcall'.op = "on")
        => /\ Disagree(lastcall'.strs)
              => /\ raised'.kind = "Error"
                 /\ m_declarations' = m_declarations
           /\ (raised' = NoError /\ Len(m_declarations') = Len(m_declarations) + 1)
              => m_declarations'[Len(m_declarations')].needvalue = AllMarked(lastcall'.strs) ]_vars

(***************************************************************************)
(* C12.  The claim as stated: on({"-I?"}) and on({"--include=?"}) with a   *)
(* with-value callback each register a declaration that needs a value, and *)
(* with that one declaration ["-Ifoo"], respectively ["--include=foo"], is *)
(* scanned to the end and invokes the callback once, with "foo".           *)
(***************************************************************************)
C12_AsStated ==
    /\ \A k \in 1..Len(m_declarations) :
         m_declarations[k].description \in {D_include_short.desc, D_include_long.desc}
         => m_declarations[k].needvalue
    /\ (Finished /\ RegisteredOnly({D_include_short}) /\ m_vargs = <<A_Ifoo>>)
       => /\ pc = "done"
          /\ calls = <<Call(IdxOf(D_include_short), "strval", A_foo)>>
    /\ (Finished /\ RegisteredOnly({D_include_long}) /\ m_vargs = <<A_include_foo>>)
       => /\ pc = "done"
          /\ calls = <<Call(IdxOf(D_include_long), "strval", A_foo)>>

\* the argument is "--" and a name, without a '='
BareLong(arg) ==
    /\ Len(arg) >= 3
    /\ SubSeq(arg, 1, 2) = <<"-", "-">>
    /\ \A k \in 1..Len(arg) : arg[k] # "="

(***************************************************************************)
(* C13.  An iteration on a long argument --name without '=', name being    *)
(* declared by a declaration that needs a value, throws ValueNeededError   *)
(* and invokes no callback.  So with the one declaration {"-o?","--out=?"} *)
(* each of ["--out"] and ["--out","x"] throws ValueNeededError naming out, *)
(* with no callback invoked and nothing positional.                        *)
(***************************************************************************)
C13_Step ==
    (/\ Scanning
     /\ BareLong(m_vargs[i + 1])
     /\ find_decl_long(SubSeq(m_vargs[i + 1], 3, Len(m_vargs[i + 1]))) # npos
     /\ m_declarations[find_decl_long(SubSeq(m_vargs[i + 1], 3, Len(m_vargs[i + 1]))) + 1].needvalue)
    => /\ pc' = "threw"
       /\ raised'.kind = "ValueNeededError"
       /\ calls' = calls
       /\ m_positional' = m_positional

C13_Example ==
    (/\ Finished
     /\ RegisteredOnly({D_out})
     /\ m_vargs \in {<<A_out>>, <<A_out, A_x>>})
    => /\ pc = "threw"
       /\ raised.kind = "ValueNeededError"
       /\ raised.arg = <<"o", "u", "t">>
       /\ calls = <<>>
       /\ m_positional = <<>>

\* C13: the example holds in every state and the step in every iteration
C13_LongValueNeeded == []C13_Example /\ [][C13_Step]_vars

C13_Witness ==
    /\ pc = "threw"
    /\ RegisteredOnly({D_out})
    /\ m_vargs = <<A_out, A_x>>
    /\ raised.kind = "ValueNeededError"
    /\ raised.arg = <<"o", "u", "t">>
    /\ i = 0
    /\ calls = <<>>

\* the argument is a dash and one or more declared flags
FlagArg(arg) ==
    /\ Len(arg) >= 2
    /\ arg[1] = "-"
    /\ \A j \in 2..Len(arg) : FlagOption(arg[j])

\* the option characters of the arguments from the k-th on, in input order
RECURSIVE FlagChars(_, _)
FlagChars(args, k) ==
    IF k > Len(args) THEN <<>>
    ELSE SubSeq(args[k], 2, Len(args[k])) \o FlagChars(args, k + 1)

\* the declaration (index from 0) is named by the argument: by its long
\* name, or by one of its characters
NamedBy(idx, arg) ==
    /\ Len(arg) >= 2
    /\ arg[1] = "-"
    /\ IF arg[2] = "-"
       THEN is_long(m_declarations[idx + 1], LongNameOf(arg))
       ELSE \E j \in 2..Len(arg) : is_short(m_declarations[idx + 1], arg[j])

(***************************************************************************)
(* C14.  An iteration leaves the callbacks invoked so far as they are and  *)
(* adds, after them, only callbacks of declarations that the argument at i *)
(* names; the loop never goes back to an earlier argument.  A list made of *)
(* declared flags, alone or in bundles, is scanned to the end and invokes  *)
(* one callback per occurrence of a flag, in the order of the occurrences  *)
(* in the input; and ["--out=x","-v"] invokes out's callback before v's,   *)
(* ["-v","--out=x"] v's before out's.                                      *)
(***************************************************************************)
C14_Step ==
    pc = "parsing"
    => /\ Len(calls') >= Len(calls)
       /\ SubSeq(calls', 1, Len(calls)) = calls
       /\ \A k \in (Len(calls) + 1)..Len(calls') : NamedBy(calls'[k].decl, m_vargs[i + 1])
       /\ pc' = "parsing" => i' > i

C14_Flags ==
    (Finished /\ m_vargs # <<>> /\ \A k \in 1..Len(m_vargs) : FlagArg(m_vargs[k]))
    => /\ pc = "done"
       /\ calls = FlagCalls(FlagChars(m_vargs, 1))

C14_Example ==
    (Finished /\ RegisteredOnly({D_out, D_verbose}))
    => /\ m_vargs = <<A_out_x, A_v>>
          => calls = <<Call(IdxOf(D_out), "strval", A_x), Call(IdxOf(D_verbose), "noval", <<>>)>>
       /\ m_vargs = <<A_v, A_out_x>>
          => calls = <<Call(IdxOf(D_verbose), "noval", <<>>), Call(IdxOf(D_out), "strval", A_x)>>

\* C14: the examples hold in every state and the step in every iteration
C14_InputOrder == []C14_Flags /\ []C14_Example /\ [][C14_Step]_vars

\* -v -d -v with v declared before d: v's callback, d's, v's again
C14_Witness ==
    /\ pc = "done"
    /\ UserDescs = <<D_verbose.desc, D_debug.desc>>
    /\ m_vargs = <<A_v, A_d, A_v>>
    /\ calls = <<Call(IdxOf(D_verbose), "noval", <<>>), Call(IdxOf(D_debug), "noval", <<>>),
                 Call(IdxOf(D_verbose), "noval", <<>>)>>

(***************************************************************************)
(* C15.  An iteration that throws InvalidOptionError or ValueNeededError   *)
(* keeps the callbacks invoked and the positionals collected before it,    *)
(* adds at most callbacks of the argument it is at, and leaves the index   *)
(* at that argument; after the throw nothing is invoked and nothing is     *)
(* appended.  So ["-v","--bogus","-v"] invokes v's callback once and       *)
(* throws InvalidOptionError, ["x","-o"] with no stop predicate keeps      *)
(* positional = ["x"] and throws ValueNeededError, and ["-vo","x"] invokes *)
(* v's callback, throws ValueNeededError and never appends "x".            *)
(***************************************************************************)
C15_Step ==
    /\ (/\ pc = "parsing"
        /\ pc' = "threw"
        /\ raised'.kind \in {"InvalidOptionError", "ValueNeededError"})
       => /\ m_positional' = m_positional
          /\ Len(calls') >= Len(calls)
          /\ SubSeq(calls', 1, Len(calls)) = calls
          /\ \A k \in (Len(calls) + 1)..Len(calls') : NamedBy(calls'[k].decl, m_vargs[i + 1])
          /\ i' = i
    /\ pc = "threw" => UNCHANGED <<calls, m_positional, i>>

C15_Example ==
    /\ (/\ Finished
        /\ RegisteredOnly({D_verbose})
        /\ m_on_unknownoptfn # "false"
        /\ m_vargs = <<A_v, A_bogus, A_v>>)
       => /\ pc = "threw"
          /\ raised.kind = "InvalidOptionError"
          /\ calls = <<Call(IdxOf(D_verbose), "noval", <<>>)>>
          /\ m_positional = <<>>
          /\ i = 1
    /\ (/\ Finished
        /\ RegisteredOnly({D_out})
        /\ m_stopif_funcs = <<>>
        /\ m_vargs = <<A_x, A_o>>)
       => /\ pc = "threw"
          /\ raised.kind = "ValueNeededError"
          /\ calls = <<>>
          /\ m_positional = <<A_x>>
    /\ (/\ Finished
        /\ RegisteredOnly({D_verbose, D_out})
        /\ m_vargs = <<A_vo, A_x>>)
       => /\ pc = "threw"
          /\ raised.kind = "ValueNeededError"
          /\ calls = <<Call(IdxOf(D_verbose), "noval", <<>>)>>
          /\ m_positional = <<>>
          /\ i = 0

\* C15: the examples hold in every state and the step in every iteration
C15_ErrorStopsScan == []C15_Example /\ [][C15_Step]_vars

C15_Witness ==
    /\ pc = "threw"
    /\ raised.kind = "InvalidOptionError"
    /\ RegisteredOnly({D_verbose})
    /\ m_vargs = <<A_v, A_bogus, A_v>>
    /\ calls = <<Call(IdxOf(D_verbose), "noval", <<>>)>>
    /\ m_positional = <<>>
    /\ i = 1

(***************************************************************************)
(* Two calls of parse.  SpecAgain is the parser on which parse() is called *)
(* again after a call of parse() has returned, with either overload each   *)
(* time.  The caller calls again while the callbacks invoked and the       *)
(* positionals collected by the calls before number less than MaxCarried.  *)
(***************************************************************************)
MaxCarried == 2

AgainMenu == {D_verbose}

AgainArgs == { <<>>, <<A_x>>, <<A_v>>, <<A_x, A_v>>, <<A_v, A_x>>, <<A_vv>>, << <<"y">> >> }

\* parse(const std::vector<string>& args), called after a parse() returned
ParseVectorAgain(args) ==
    /\ pc = "done"
    /\ Len(calls) + Len(m_positional) < MaxCarried
    /\ m_vargs' = args
    /\ realparse_enter(args)
    /\ lastcall' = [op |-> "parse", strs |-> args, desc |-> "", fn |-> ""]
    /\ UNCHANGED <<m_positional, m_declarations, m_stopif_funcs, m_dosoptsdeclared,
                   m_on_unknownoptfn, calls, unknown_seen>>

\* parse(int argc, char** argv, int begin), called after a parse() returned
ParseArgvAgain(argv, begin) ==
    /\ pc = "done"
    /\ Len(calls) + Len(m_positional) < MaxCarried
    /\ m_vargs' = m_vargs \o SubSeq(argv, begin + 1, Len(argv))
    /\ realparse_enter(m_vargs')
    /\ lastcall' = [op |-> "parse", strs |-> SubSeq(argv, begin + 1, Len(argv)), desc |-> "", fn |-> ""]
    /\ UNCHANGED <<m_positional, m_declarations, m_stopif_funcs, m_dosoptsdeclared,
                   m_on_unknownoptfn, calls, unknown_seen>>

NextAgain ==
    \/ \E d \in AgainMenu : On(d.strs, d.desc, d.fn)
    \/ \E args \in AgainArgs : ParseVector(args)
    \/ \E args \in AgainArgs : ParseArgv(<<ProgramName>> \o args, 1)
    \/ \E args \in AgainArgs : ParseVectorAgain(args)
    \/ \E args \in AgainArgs : ParseArgvAgain(<<ProgramName>> \o args, 1)
    \/ \E g \in Garbage : ParseStep(g)

SpecAgain == Init /\ [][NextAgain]_vars

\* the arguments of the list that do not start with a dash, in order
PlainWords(args) == SelectSeq(args, LAMBDA a : At(a, 0) # "-")

\* every argument of the list is a plain word or a dash and declared flags
WordsAndFlags(args) ==
    \A k \in 1..Len(args) : At(args[k], 0) # "-" \/ FlagArg(args[k])

(***************************************************************************)
(* C16.  The claim as stated: a call of parse() made after a call of       *)
(* parse() has returned scans the arguments it was given and no others;    *)
(* and when parse() has returned from a list B of plain words and declared *)
(* flags, with no stop predicate registered, the positional list is what   *)
(* scanning B alone gives: the plain words of B, in order.                 *)
(***************************************************************************)
C16_Alone ==
    (/\ pc = "done"
     /\ lastcall.op = "parse"
     /\ m_stopif_funcs = <<>>
     /\ WordsAndFlags(lastcall.strs))
    => m_positional = PlainWords(lastcall.strs)

C16_Step == pc = "done" => m_vargs' = lastcall'.strs

\* C16: the positional list is that of the last call alone in every state,
\* and every further call scans only its own arguments
C16_AsStated == []C16_Alone /\ [][C16_Step]_vars

(***************************************************************************)
(* Stop predicates.  SpecStop is the parser with stopIfSawPositional() and *)
(* with stopIf() given a lambda that returns true while no positional has  *)
(* been collected, so that it returns true at the first iteration and      *)
(* false at every later one.                                               *)
(***************************************************************************)
D_include == [strs |-> << <<"-", "I", "?">>, <<"-", "-", "i", "n", "c", "l", "u", "d", "e", "=", "?">> >>,
              desc |-> "add an include path", fn |-> "strval"]

StopMenu == {D_out, D_include, D_verbose}

A_Iopt    == <<"-", "I", "/", "o", "p", "t", "/", "s", "t", "u", "f", "f">>
A_things  == <<"t", "h", "i", "n", "g", "s", ".", "c">>
A_Ielse   == <<"-", "I", "/", "s", "o", "m", "e", "t", "h", "i", "n", "g", "/", "e", "l", "s", "e">>

\* the argument list in the comment of stopIfSawPositional
SawPositionalArgs == <<A_o, A_foo, A_Iopt, A_things, A_Ielse>>

StopArgs == { SawPositionalArgs, <<A_v>>, <<A_v, A_v>>, <<A_x, A_v>>, <<A_v, A_x, A_v>>,
              <<A_dashes, A_v>>, <<A_v, A_dashes, A_x>>, <<A_x, A_Iopt, A_v>>,
              <<A_Iopt, A_x, A_bogus>>, <<A_o, A_x, A_x, A_o>>,
              <<A_dashes, A_dashes>>, <<A_x, A_dashes, A_v>>, <<A_dashes, A_dashes, A_dashes>> }

\* stopIf(cb), cb a lambda of the caller
StopIfLambda(cb) ==
    /\ pc = "idle"
    /\ Len(m_stopif_funcs) < MaxStopIf
    /\ stopIf(cb)
    /\ lastcall' = [op |-> "stopIf", strs |-> <<>>, desc |-> "", fn |-> cb]

NextStop ==
    \/ \E d \in StopMenu : On(d.strs, d.desc, d.fn)
    \/ StopIfSawPositional
    \/ StopIfLambda("nothingPositional")
    \/ \E args \in StopArgs : ParseVector(args)
    \/ \E g \in Garbage : ParseStep(g)

SpecStop == Init /\ [][NextStop]_vars

(***************************************************************************)
(* C17.  An iteration entered with the flag stopparsing set, or in which a *)
(* stop predicate returns true, appends its argument to the positional     *)
(* list as it is, invokes no callback and leaves the flag set, whatever    *)
(* the predicates return in that iteration and later.  So with a predicate *)
(* that returns true only while nothing is positional, every argument of   *)
(* the list is positional and no callback is invoked.                      *)
(***************************************************************************)
C17_Step ==
    (pc = "parsing" /\ (stopparsing \/ AnyStopIf))
    => /\ m_positional' = Append(m_positional, m_vargs[i + 1])
       /\ calls' = calls
       /\ unknown_seen' = unknown_seen
       /\ stopparsing'
       /\ GoesOnAt(i + 1)

C17_Example ==
    (/\ Finished
     /\ \E k \in 1..Len(m_stopif_funcs) : m_stopif_funcs[k] = "nothingPositional")
    => /\ pc = "done"
       /\ m_positional = m_vargs
       /\ calls = <<>>

\* C17: the example holds in every state and the step in every iteration
C17_StopNeverResets == []C17_Example /\ [][C17_Step]_vars

\* scanned to the end with the flag set and every predicate returning false
C17_Witness ==
    /\ pc = "done"
    /\ m_stopif_funcs = <<"nothingPositional">>
    /\ RegisteredOnly({D_verbose})
    /\ m_vargs = <<A_v, A_x, A_v>>
    /\ m_positional = <<A_v, A_x, A_v>>
    /\ calls = <<>>
    /\ stopparsing
    /\ ~AnyStopIf

(***************************************************************************)
(* C18.  With stopIfSawPositional() registered, an iteration entered with  *)
(* a non-empty positional list appends its argument to the list as it is   *)
(* and invokes no callback.  So with {"-o?","--out=?"} and                 *)
(* {"-I?","--include=?"} declared,                                         *)
(* ["-o","foo","-I/opt/stuff","things.c","-I/something/else"] gives        *)
(* positional = ["things.c","-I/something/else"], -o's callback invoked    *)
(* with "foo" and -I's callback invoked once, with "/opt/stuff".           *)
(***************************************************************************)
C18_Step ==
    (/\ pc = "parsing"
     /\ \E k \in 1..Len(m_stopif_funcs) : m_stopif_funcs[k] = "sawPositional"
     /\ Len(m_positional) > 0)
    => /\ m_positional' = Append(m_positional, m_vargs[i + 1])
       /\ calls' = calls
       /\ GoesOnAt(i + 1)

C18_Example ==
    (/\ Finished
     /\ RegisteredOnly({D_out, D_include})
     /\ m_stopif_funcs = <<"sawPositional">>
     /\ m_vargs = SawPositionalArgs)
    => /\ pc = "done"
       /\ m_positional = <<A_things, A_Ielse>>
       /\ calls = <<Call(IdxOf(D_out), "strval", A_foo),
                    Call(IdxOf(D_include), "strval", SubSeq(A_Iopt, 3, Len(A_Iopt)))>>

\* C18: the example holds in every state and the step in every iteration
C18_SawPositional == []C18_Example /\ [][C18_Step]_vars

C18_Witness ==
    /\ pc = "done"
    /\ RegisteredOnly({D_out, D_include})
    /\ m_stopif_funcs = <<"sawPositional">>
    /\ m_vargs = SawPositionalArgs
    /\ m_positional = <<A_things, A_Ielse>>
    /\ Len(calls) = 2
    /\ calls[2].value = <<"/", "o", "p", "t", "/", "s", "t", "u", "f", "f">>

\* init declared -h and --help: its declaration is the first of the registry
HelpDeclared ==
    /\ Len(m_declarations) >= 1
    /\ m_declarations[1].description = "show this help"
    /\ is_short(m_declarations[1], "h")
    /\ is_long(m_declarations[1], <<"h", "e", "l", "p">>)

\* init declared nothing: the parser was constructed with declhelp false
HelpNotDeclared ==
    \A k \in 1..Len(m_declarations) : m_declarations[k].description # "show this help"

(***************************************************************************)
(* C19.  An iteration on -h or --help, the scan not being stopped: when    *)
(* init declared the help option, its callback is invoked and ends the     *)
(* process, after which no callback is invoked and nothing is appended to  *)
(* the positional list; when init declared nothing, the argument is an     *)
(* unknown option: no callback is invoked, the handler is asked when one   *)
(* is set, and InvalidOptionError is thrown unless it returns false.  So   *)
(* ["-v","--help","-v"] invokes v's callback once, then the help callback, *)
(* and nothing after it.                                                   *)
(***************************************************************************)
C19_Step ==
    /\ (Scanning /\ m_vargs[i + 1] \in {A_h, A_help} /\ HelpDeclared)
       => /\ pc' = "exited"
          /\ calls' = Append(calls, Call(0, "noval", <<>>))
          /\ m_positional' = m_positional
          /\ i' = i
    /\ (Scanning /\ m_vargs[i + 1] \in {A_h, A_help} /\ HelpNotDeclared)
       => /\ calls' = calls
          /\ m_positional' = m_positional
          /\ unknown_seen' = IF m_on_unknownoptfn = "null" THEN unknown_seen
                             ELSE Append(unknown_seen, m_vargs[i + 1])
          /\ IF m_on_unknownoptfn = "false"
             THEN GoesOnAt(i + 1)
             ELSE /\ pc' = "threw"
                  /\ raised'.kind = "InvalidOptionError"
    /\ pc = "exited" => UNCHANGED <<calls, m_positional, i>>

C19_Example ==
    /\ (/\ Finished
        /\ HelpDeclared
        /\ Len(m_declarations) = 2
        /\ m_declarations[2].description = D_verbose.desc
        /\ m_vargs = <<A_v, A_help, A_v>>)
       => /\ pc = "exited"
          /\ calls = <<Call(1, "noval", <<>>), Call(0, "noval", <<>>)>>
          /\ m_positional = <<>>
    /\ (/\ Finished
        /\ HelpDeclared
        /\ m_stopif_funcs = <<>>
        /\ m_vargs = <<A_x, A_h, A_x>>)
       => /\ pc = "exited"
          /\ m_positional = <<A_x>>
    /\ (/\ Finished
        /\ HelpNotDeclared
        /\ m_on_unknownoptfn # "false"
        /\ m_vargs \in {<<A_help>>, <<A_h, A_v>>})
       => /\ pc = "threw"
          /\ raised.kind = "InvalidOptionError"
          /\ calls = <<>>

\* C19: the examples hold in every state and the step in every iteration
C19_DefaultHelp == []C19_Example /\ [][C19_Step]_vars

C19_Witness ==
    /\ pc = "exited"
    /\ HelpDeclared
    /\ RegisteredOnly({D_verbose})
    /\ m_vargs = <<A_v, A_help, A_v>>
    /\ calls = <<Call(1, "noval", <<>>), Call(0, "noval", <<>>)>>
    /\ m_positional = <<>>
    /\ i = 1

(***************************************************************************)
(* C20.  The claim as stated: in an iteration on an unknown option, a      *)
(* handler being set, the handler is called once, with the whole argument  *)
(* as it is in the input when the argument is a long one, and with a dash  *)
(* and the character when the argument is a dash and an unknown short      *)
(* character.                                                              *)
(***************************************************************************)
C20_AsStated ==
    [][ (Scanning /\ m_on_unknownoptfn # "null" /\ UnknownArg(m_vargs[i + 1]))
        => unknown_seen' = Append(unknown_seen,
                                  IF m_vargs[i + 1][2] = "-" THEN m_vargs[i + 1]
                                  ELSE <<"-", m_vargs[i + 1][2]>>) ]_vars

(***************************************************************************)
(* Further arguments.  SpecScan is the parser with declarations that share *)
(* a spelling, among them one of the caller for -h and --help, and with    *)
(* bundles that hold an undeclared character, the argument "-", and long   *)
(* arguments whose value is empty or holds a '='.                          *)
(***************************************************************************)
D_user_help    == [strs |-> HelpStrs, desc |-> "help of the caller", fn |-> "noval"]

D_verbose_too  == [strs |-> << <<"-", "v">> >>, desc |-> "second declaration of -v", fn |-> "noval"]

ScanMenu == {D_out, D_verbose, D_user_help, D_verbose_too}

A_vx      == <<"-", "v", "x">>
A_out_eq  == <<"-", "-", "o", "u", "t", "=">>
A_out_a_b == <<"-", "-", "o", "u", "t", "=", "a", "=", "b">>

ScanArgs == { <<A_vx>>, <<A_xv>>, <<A_vx, A_v>>, <<A_vv>>,
              <<A_dash>>, <<A_dash, A_x>>, <<A_v, A_dash>>, <<A_o, A_dash>>,
              <<A_out_eq>>, <<A_out_a_b>>, <<A_out_x>>, <<A_out_eq, A_x>>,
              <<A_h>>, <<A_help>>, <<A_h, A_v>>, <<A_v>>, <<A_v, A_v>>, <<A_bogus, A_x>> }

NextScan ==
    \/ \E d \in ScanMenu : On(d.strs, d.desc, d.fn)
    \/ \E ret \in {"true", "false"} : OnUnknownOption(ret)
    \/ \E args \in ScanArgs : ParseVector(args)
    \/ \E g \in Garbage : ParseStep(g)

SpecScan == Init /\ [][NextScan]_vars

\* the argument is a dash and two or more characters, each a declared flag
\* or an undeclared character, at least one of them undeclared
FlagsAndUnknown(arg) ==
    /\ Len(arg) >= 3
    /\ arg[1] = "-"
    /\ arg[2] # "-"
    /\ \A k \in 2..Len(arg) : FlagOption(arg[k]) \/ find_decl_short(arg[k]) = npos
    /\ \E k \in 2..Len(arg) : find_decl_short(arg[k]) = npos

(***************************************************************************)
(* C21.  The claim as stated: an iteration on a bundle of declared flags   *)
(* and undeclared characters, the handler returning false, invokes no      *)
(* callback, wherever the undeclared character is in the bundle.           *)
(***************************************************************************)
C21_AsStated ==
    [][ (Scanning /\ m_on_unknownoptfn = "false" /\ FlagsAndUnknown(m_vargs[i + 1]))
        => calls' = calls ]_vars

(***************************************************************************)
(* Syntax of declarations.  SpecSyntax is the parser with token sets that  *)
(* hold a token addDeclaration cannot parse, with DOS-style token sets,    *)
(* and with token sets whose lambda has the shape the tokens do not ask    *)
(* for.                                                                    *)
(***************************************************************************)
BadTokens == { <<>>, <<"-">>, <<"/">>, <<"o">>, <<"-", "=">> }

BadMenu ==
    { [strs |-> <<t>>, desc |-> "unparseable token", fn |-> "noval"] : t \in BadTokens }
    \cup { [strs |-> << <<"-", "v">>, t >>, desc |-> "unparseable second token", fn |-> "noval"] :
             t \in BadTokens }

D_dos_out     == [strs |-> << <<"/", "o", "u", "t", ":", "?">> >>,
                  desc |-> "set output file name (DOS style)", fn |-> "strval"]

D_dos_verbose == [strs |-> << <<"/", "v", "e", "r", "b", "o", "s", "e">> >>,
                  desc |-> "toggle verbose output (DOS style)", fn |-> "noval"]

D_debug_strval == [strs |-> << <<"-", "d">> >>,
                   desc |-> "flag with a with-value lambda", fn |-> "strval"]

D_out_noval    == [strs |-> << <<"-", "o", "?">>, <<"-", "-", "o", "u", "t", "=", "?">> >>,
                   desc |-> "value option with a no-value lambda", fn |-> "noval"]

SyntaxMenu == BadMenu \cup {D_dos_out, D_dos_verbose, D_debug_strval, D_out_noval, D_verbose}

A_dos_out_x   == <<"/", "o", "u", "t", ":", "x">>
A_dos_verbose == <<"/", "v", "e", "r", "b", "o", "s", "e">>
A_debug       == <<"-", "-", "d", "e", "b", "u", "g">>

SyntaxArgs == { <<A_dos_out_x>>, <<A_dos_verbose>>, <<A_v, A_dos_out_x>>,
                <<A_d>>, <<A_vd>>, <<A_v, A_d>>, <<A_o, A_x>>, <<A_ox>>, <<A_out_x>>, <<A_v>> }

NextSyntax ==
    \/ \E d \in SyntaxMenu : On(d.strs, d.desc, d.fn)
    \/ \E args \in SyntaxArgs : ParseVector(args)
    \/ \E g \in Garbage : ParseStep(g)

SpecSyntax == Init /\ [][NextSyntax]_vars

\* a character that can follow the '-' or the '/' of a declaration token
NameChar(c) == c \in Letters \cup Digits \cup {"?", "!", "#"}

\* the token starts with "--", or is '/' or '-' and a name character
Parseable(token) ==
    \/ Len(token) >= 2 /\ token[1] = "-" /\ token[2] = "-"
    \/ Len(token) >= 2 /\ token[1] \in {"/", "-"} /\ NameChar(token[2])

(***************************************************************************)
(* C22.  on() with a token set that holds a token which neither starts     *)
(* with "--" nor is '/' or '-' followed by an alphanumeric character or    *)
(* one of '?', '!', '#' throws Error "unparseable option syntax" with the  *)
(* first such token, and leaves the registry as it was.  The tokens "",    *)
(* "-", "/", "o" and "-=" are such tokens.                                 *)
(***************************************************************************)
C22_Step ==
    (/\ pc = "idle"
     /\ lastcall'.op = "on"
     /\ \E k \in 1..Len(lastcall'.strs) : ~Parseable(lastcall'.strs[k]))
    => /\ raised'.kind = "Error"
       /\ raised'.what = "unparseable option syntax"
       /\ \E k \in 1..Len(lastcall'.strs) :
            /\ raised'.arg = lastcall'.strs[k]
            /\ ~Parseable(lastcall'.strs[k])
            /\ \A j \in 1..(k - 1) : Parseable(lastcall'.strs[j])
       /\ m_declarations' = m_declarations

C22_Tokens == \A t \in BadTokens : ~Parseable(t)

\* C22: the five tokens are unparseable, and every on() with such a token
\* throws
C22_Unparseable == []C22_Tokens /\ [][C22_Step]_vars

C22_Witness ==
    /\ lastcall.op = "on"
    /\ lastcall.strs = << <<"-", "v">>, <<"-", "=">> >>
    /\ raised.kind = "Error"
    /\ raised.what = "unparseable option syntax"
    /\ raised.arg = <<"-", "=">>
    /\ \A k \in 1..Len(m_declarations) : m_declarations[k].description # "unparseable second token"

(***************************************************************************)
(* C23.  The claim as stated: with the one declaration {"/out:?"} and a    *)
(* with-value callback, ["/out:x"] invokes the callback once, with "x",    *)
(* and adds nothing to the positional list; with the one declaration       *)
(* {"/verbose"}, ["/verbose"] invokes its callback once.                   *)
(***************************************************************************)
C23_AsStated ==
    /\ (Finished /\ RegisteredOnly({D_dos_out}) /\ m_vargs = <<A_dos_out_x>>)
       => /\ calls = <<Call(IdxOf(D_dos_out), "strval", A_x)>>
          /\ m_positional = <<>>
    /\ (Finished /\ RegisteredOnly({D_dos_verbose}) /\ m_vargs = <<A_dos_verbose>>)
       => /\ calls = <<Call(IdxOf(D_dos_verbose), "noval", <<>>)>>
          /\ m_positional = <<>>

\* the iteration threw the error of Callback::invoke and invoked nothing
InternalError ==
    /\ pc' = "threw"
    /\ raised'.kind = "runtime_error"
    /\ raised'.kind \notin {"InvalidOptionError", "ValueNeededError"}
    /\ calls' = calls
    /\ m_positional' = m_positional

(***************************************************************************)
(* C24.  Every declaration of the registry has exactly one of its two      *)
(* callback slots bound.  An iteration that dispatches to the slot that is *)
(* not bound (a flag -c or --name whose declaration holds a with-value     *)
(* callback; a value option -c VALUE, -cVALUE or --name=VALUE whose        *)
(* declaration holds a no-value callback) throws std::runtime_error, which *)
(* is neither InvalidOptionError nor ValueNeededError, and invokes no      *)
(* callback.                                                               *)
(***************************************************************************)
C24_OneShape ==
    \A k \in 1..Len(m_declarations) :
        (m_declarations[k].callback.real_noval = "null")
        # (m_declarations[k].callback.real_strval = "null")

C24_Step ==
    Scanning =>
      LET arg == m_vargs[i + 1]
      IN /\ \A c \in OptionChars :
              (/\ arg = <<"-", c>>
               /\ find_decl_short(c) # npos
               /\ IF ShortDecl(c).needvalue
                  THEN NextIsValue(i) /\ ShortDecl(c).callback.real_strval = "null"
                  ELSE ShortDecl(c).callback.real_noval = "null")
              => InternalError
         /\ \A c \in OptionChars :
              (/\ Len(arg) >= 3
               /\ SubSeq(arg, 1, 2) = <<"-", c>>
               /\ find_decl_short(c) # npos
               /\ IF ShortDecl(c).needvalue
                  THEN ShortDecl(c).callback.real_strval = "null"
                  ELSE ShortDecl(c).callback.real_noval = "null")
              => InternalError
         /\ (/\ Len(arg) >= 3
             /\ SubSeq(arg, 1, 2) = <<"-", "-">>
             /\ find_decl_long(LongNameOf(arg)) # npos
             /\ LET decl == m_declarations[find_decl_long(LongNameOf(arg)) + 1]
                IN IF decl.needvalue
                   THEN ~BareLong(arg) /\ decl.callback.real_strval = "null"
                   ELSE decl.callback.real_noval = "null")
            => InternalError

C24_Example ==
    /\ (Finished /\ RegisteredOnly({D_debug_strval}) /\ m_vargs = <<A_d>>)
       => /\ pc = "threw"
          /\ raised = throwError("runtime_error", "real_noval is NULL", <<>>)
          /\ calls = <<>>
    /\ (Finished /\ RegisteredOnly({D_out_noval}) /\ m_vargs \in {<<A_o, A_x>>, <<A_ox>>, <<A_out_x>>})
       => /\ pc = "threw"
          /\ raised = throwError("runtime_error", "real_strval is NULL", <<>>)
          /\ calls = <<>>

\* C24: one slot is bound and the examples hold in every state, and the
\* step in every iteration
C24_WrongShape == []C24_OneShape /\ []C24_Example /\ [][C24_Step]_vars

C24_Witness ==
    /\ pc = "threw"
    /\ RegisteredOnly({D_out_noval})
    /\ m_vargs = <<A_o, A_x>>
    /\ raised.kind = "runtime_error"
    /\ raised.what = "real_strval is NULL"
    /\ calls = <<>>

(***************************************************************************)
(* C25.  The claim as stated: an iteration on the argument "-", the scan   *)
(* not being stopped, appends it to the positional list, invokes nothing,  *)
(* asks no handler and goes on at the next argument.                       *)
(***************************************************************************)
C25_AsStated ==
    [][ (Scanning /\ m_vargs[i + 1] = A_dash)
        => /\ m_positional' = Append(m_positional, A_dash)
           /\ calls' = calls
           /\ unknown_seen' = unknown_seen
           /\ GoesOnAt(i + 1) ]_vars

(***************************************************************************)
(* C26.  An iteration on "--": when the flag stopparsing is not set and no *)
(* stop predicate returns true, it sets the flag and adds nothing to the   *)
(* positional list; when the flag is set or a predicate returns true, it   *)
(* appends "--" to the positional list.  In both cases no callback is      *)
(* invoked and the loop goes on at the next argument.  So ["--","--"]      *)
(* gives positional = ["--"], and ["x","--","-v"] with                     *)
(* stopIfSawPositional gives positional = ["x","--","-v"].                 *)
(***************************************************************************)
C26_Step ==
    (pc = "parsing" /\ m_vargs[i + 1] = A_dashes)
    => /\ IF stopparsing \/ AnyStopIf
          THEN m_positional' = Append(m_positional, A_dashes)
          ELSE m_positional' = m_positional
       /\ stopparsing'
       /\ calls' = calls
       /\ GoesOnAt(i + 1)

C26_Example ==
    /\ (/\ Finished
        /\ \A k \in 1..Len(m_stopif_funcs) : m_stopif_funcs[k] = "sawPositional"
        /\ m_vargs = <<A_dashes, A_dashes>>)
       => /\ pc = "done"
          /\ m_positional = <<A_dashes>>
    /\ (/\ Finished
        /\ m_stopif_funcs = <<"sawPositional">>
        /\ m_vargs = <<A_x, A_dashes, A_v>>)
       => /\ pc = "done"
          /\ m_positional = <<A_x, A_dashes, A_v>>
          /\ calls = <<>>

\* C26: the examples hold in every state and the step in every iteration
C26_SeparatorOnce == []C26_Example /\ [][C26_Step]_vars

C26_Witness ==
    /\ pc = "done"
    /\ m_stopif_funcs = <<>>
    /\ m_vargs = <<A_dashes, A_dashes>>
    /\ m_positional = <<A_dashes>>
    /\ stopparsing

\* the argument holds a '=' after its "--"
HasEq(arg) == \E k \in 3..Len(arg) : arg[k] = "="

\* what follows the first '=' of the argument
AfterFirstEq(arg) ==
    LET e == CHOOSE k \in 3..Len(arg) : arg[k] = "=" /\ \A j \in 3..(k - 1) : arg[j] # "="
    IN SubSeq(arg, e + 1, Len(arg))

(***************************************************************************)
(* C27.  An iteration on a long argument --N=V, N being what is between    *)
(* "--" and the first '=' and V what follows that '=': when N is declared  *)
(* by a declaration that needs a value and holds a with-value callback,    *)
(* the callback is invoked once, with V, and the loop goes on at the next  *)
(* argument.  So with {"-o?","--out=?"} declared, ["--out="] gives the     *)
(* callback "" and ["--out=a=b"] gives it "a=b".                           *)
(***************************************************************************)
C27_Step ==
    (/\ Scanning
     /\ Len(m_vargs[i + 1]) >= 3
     /\ SubSeq(m_vargs[i + 1], 1, 2) = <<"-", "-">>
     /\ HasEq(m_vargs[i + 1])
     /\ find_decl_long(LongNameOf(m_vargs[i + 1])) # npos
     /\ m_declarations[find_decl_long(LongNameOf(m_vargs[i + 1])) + 1].needvalue
     /\ m_declarations[find_decl_long(LongNameOf(m_vargs[i + 1])) + 1].callback.real_strval = "user")
    => /\ calls' = Append(calls, Call(find_decl_long(LongNameOf(m_vargs[i + 1])), "strval",
                                      AfterFirstEq(m_vargs[i + 1])))
       /\ m_positional' = m_positional
       /\ GoesOnAt(i + 1)

C27_Example ==
    (Finished /\ RegisteredOnly({D_out}))
    => /\ m_vargs = <<A_out_eq>>
          => pc = "done" /\ calls = <<Call(IdxOf(D_out), "strval", <<>>)>>
       /\ m_vargs = <<A_out_a_b>>
          => pc = "done" /\ calls = <<Call(IdxOf(D_out), "strval", <<"a", "=", "b">>)>>
       /\ m_vargs = <<A_out_eq, A_x>>
          => /\ pc = "done"
             /\ calls = <<Call(IdxOf(D_out), "strval", <<>>)>>
             /\ m_positional = <<A_x>>

\* C27: the examples hold in every state and the step in every iteration
C27_LongNameValue == []C27_Example /\ [][C27_Step]_vars

C27_Witness ==
    /\ pc = "done"
    /\ RegisteredOnly({D_out})
    /\ m_vargs = <<A_out_a_b>>
    /\ calls = <<Call(IdxOf(D_out), "strval", <<"a", "=", "b">>)>>
    /\ m_positional = <<>>

RECURSIVE IsSubsequence(_, _)
\* the elements of sub are elements of seq, in the order of seq
IsSubsequence(sub, seq) ==
    IF sub = <<>> THEN TRUE
    ELSE IF seq = <<>> THEN FALSE
    ELSE IF Head(sub) = Head(seq) THEN IsSubsequence(Tail(sub), Tail(seq))
    ELSE IsSubsequence(sub, Tail(seq))

(***************************************************************************)
(* C28.  The claim as stated: while parse() scans and when it has returned *)
(* without error, the positional list is a subsequence of the arguments    *)
(* parse() was given that are scanned so far, so that it is never longer   *)
(* than the number of arguments scanned so far; and an iteration moves the *)
(* index forward, by one argument or, when a value-needing short option    *)
(* takes the following argument, by two: no argument is visited twice.     *)
(***************************************************************************)
C28_Accounted ==
    pc \in {"parsing", "done"}
    => /\ i <= Len(lastcall.strs)
       /\ Len(m_positional) <= i
       /\ IsSubsequence(m_positional, SubSeq(lastcall.strs, 1, i))

C28_Forward ==
    (pc' \in {"parsing", "done"} /\ lastcall'.op = "parse")
    => \/ i' = 0 /\ m_positional' = <<>>
       \/ i' = i + 1 /\ m_positional' \in {m_positional, Append(m_positional, m_vargs[i + 1])}
       \/ /\ i' = i + 2
          /\ m_positional' = m_positional
          /\ Len(m_vargs[i + 1]) = 2
          /\ ValueOption(m_vargs[i + 1][2])

\* C28: the account holds in every state and every step moves forward
C28_AsStated == []C28_Accounted /\ [][C28_Forward]_vars

\* the indexes (from 0) of the declarations that hold the short name c
HoldersShort(c) == { k \in 0..(Len(m_declarations) - 1) : is_short(m_declarations[k + 1], c) }

\* the indexes (from 0) of the declarations that hold the long name s
HoldersLong(s) == { k \in 0..(Len(m_declarations) - 1) : is_long(m_declarations[k + 1], s) }

\* the least index of a non-empty set of indexes
Earliest(S) == CHOOSE k \in S : \A j \in S : k <= j

\* the caller declared -h and --help too
UserHelpDeclared ==
    \E k \in 1..Len(m_declarations) : m_declarations[k].description = D_user_help.desc

(***************************************************************************)
(* C29.  An iteration on a short option -c or a long option --name that    *)
(* one or more declarations hold invokes, when it invokes a callback, that *)
(* of the earliest-registered of them.  So when init declared the help     *)
(* option and the caller declares -h and --help again, an iteration on -h  *)
(* or --help invokes the callback of init, which ends the process, and the *)
(* callback of the caller's declaration is never invoked.                  *)
(***************************************************************************)
C29_Step ==
    /\ (/\ Scanning
        /\ Len(m_vargs[i + 1]) = 2
        /\ m_vargs[i + 1][1] = "-"
        /\ HoldersShort(m_vargs[i + 1][2]) # {}
        /\ calls' # calls)
       => /\ Len(calls') = Len(calls) + 1
          /\ calls'[Len(calls')].decl = Earliest(HoldersShort(m_vargs[i + 1][2]))
    /\ (/\ Scanning
        /\ Len(m_vargs[i + 1]) > 2
        /\ SubSeq(m_vargs[i + 1], 1, 2) = <<"-", "-">>
        /\ HoldersLong(LongNameOf(m_vargs[i + 1])) # {}
        /\ calls' # calls)
       => /\ Len(calls') = Len(calls) + 1
          /\ calls'[Len(calls')].decl = Earliest(HoldersLong(LongNameOf(m_vargs[i + 1])))
    /\ (/\ Scanning
        /\ m_vargs[i + 1] \in {A_h, A_help}
        /\ HelpDeclared
        /\ UserHelpDeclared)
       => /\ pc' = "exited"
          /\ calls' = Append(calls, Call(0, "noval", <<>>))

C29_NeverDispatched ==
    HelpDeclared
    => \A k \in 1..Len(calls) :
           m_declarations[calls[k].decl + 1].description # D_user_help.desc

\* C29: the caller's help is never invoked in any state, and every
\* iteration resolves a spelling to its earliest declaration
C29_FirstMatch == []C29_NeverDispatched /\ [][C29_Step]_vars

C29_Witness ==
    /\ pc = "exited"
    /\ HelpDeclared
    /\ UserHelpDeclared
    /\ m_vargs = <<A_h, A_v>>
    /\ calls = <<Call(0, "noval", <<>>)>>

(***************************************************************************)
(* The class optionparser of optionparser.hpp: the parser with one short   *)
(* and one long spelling per declaration and one shape of callback.  It is *)
(* constructed with its arguments and parse() takes none.  A declaration   *)
(* is the record of its struct Declaration; callback is "user" (a lambda   *)
(* of the caller) or "help" (the lambda of init, which calls std::exit).   *)
(***************************************************************************)
optionparser_throwError(msg, arg) == [kind |-> "runtime_error", what |-> msg, arg |-> arg]

\* addDeclaration of optionparser, for shortstr and longstr of two
\* characters or more: the exception it throws, or the declaration it
\* pushes
optionparser_addDeclaration(shortstr, longstr, desc, fn) ==
    LET shortend  == shortstr[Len(shortstr)]
        longend   == longstr[Len(longstr)]
        longeq    == longstr[Len(longstr) - 1]
        needvalue == (shortend = "?")
        shortname == IF needvalue
                     THEN substr2(substr(shortstr, 1), 0, Len(shortstr) - 2)
                     ELSE substr(shortstr, 1)
        longname  == IF needvalue
                     THEN substr2(substr(longstr, 2), 0, Len(longstr) - 4)
                     ELSE substr(longstr, 2)
        err       == IF needvalue /\ longend # "?"
                     THEN optionparser_throwError("long option did not end in '?', but short option did", <<>>)
                     ELSE IF needvalue /\ longeq # "="
                     THEN optionparser_throwError("expected '=' before '?' for long option syntax", <<>>)
                     ELSE IF Len(shortname) > 1
                     THEN optionparser_throwError("short option can only be one character long", <<>>)
                     ELSE NoError
    IN [err  |-> err,
        decl |-> [needvalue |-> needvalue, shortstr |-> shortstr, longstr |-> longstr,
                  shortname |-> shortname, longname |-> longname,
                  description |-> desc, callback |-> fn]]

\* find_decl_long of optionparser: the index (from 0) of the first
\* declaration with the long name, or npos when it returns false
optionparser_find_decl_long(name) ==
    IF \E k \in 1..Len(m_declarations) : m_declarations[k].longname = name
    THEN (CHOOSE k \in 1..Len(m_declarations) :
              /\ m_declarations[k].longname = name
              /\ \A j \in 1..(k - 1) : m_declarations[j].longname # name) - 1
    ELSE npos

\* find_decl_short of optionparser: it compares shortname[0] with the name
optionparser_find_decl_short(name) ==
    IF \E k \in 1..Len(m_declarations) : At(m_declarations[k].shortname, 0) = name
    THEN (CHOOSE k \in 1..Len(m_declarations) :
              /\ At(m_declarations[k].shortname, 0) = name
              /\ \A j \in 1..(k - 1) : At(m_declarations[j].shortname, 0) # name) - 1
    ELSE npos

\* what a handler of optionparser has done: the callbacks it invoked, the
\* exception that left it, whether a callback called std::exit, whether the
\* process was ended by a read outside m_vargs, and the index it holds
optionparser_Acc(iref) ==
    [calls |-> <<>>, err |-> NoError, exited |-> FALSE, crashed |-> FALSE, iref |-> iref]

\* decl.callback(value) of declaration idx
optionparser_callback(acc, idx, value) ==
    [acc EXCEPT !.calls = Append(@, Call(idx, "strval", value)),
                !.exited = (m_declarations[idx + 1].callback = "help")]

\* parse_longoption of optionparser
optionparser_parse_longoption(argstring, acc) ==
    LET nodash == substr(argstring, 2)
        eqpos  == find_first_of(argstring, "=")
        name   == IF eqpos = npos THEN nodash ELSE substr2(nodash, 0, eqpos - 2)
        idx    == optionparser_find_decl_long(name)
    IN IF idx # npos
       THEN IF m_declarations[idx + 1].needvalue
            THEN IF eqpos = npos
                 THEN [acc EXCEPT !.err = optionparser_throwError("longoption: expected a value", name)]
                 ELSE optionparser_callback(acc, idx, substr(nodash, eqpos - 1))
            ELSE optionparser_callback(acc, idx, <<>>)
       ELSE [acc EXCEPT !.err = optionparser_throwError("longoption: unknown option", name)]

RECURSIVE optionparser_parse_multishort(_, _, _)
\* parse_multishort of optionparser, from the character at index k
optionparser_parse_multishort(str, k, acc) ==
    IF k >= Len(str) \/ acc.exited THEN acc
    ELSE LET idx == optionparser_find_decl_short(At(str, k))
         IN IF idx # npos
            THEN IF m_declarations[idx + 1].needvalue /\ k = 0
                 THEN IF Len(str) > 1
                      THEN optionparser_callback(acc, idx, substr(str, 1))
                      ELSE [acc EXCEPT !.err = optionparser_throwError("expected a value", <<At(str, k)>>)]
                 ELSE IF m_declarations[idx + 1].needvalue
                 THEN [acc EXCEPT !.err = optionparser_throwError("unexpected option, requiring a value",
                                                                   <<At(str, k)>>)]
                 ELSE optionparser_parse_multishort(str, k + 1, optionparser_callback(acc, idx, <<>>))
            ELSE [acc EXCEPT !.err = optionparser_throwError("multishort: unknown short option", <<At(str, k)>>)]

\* what m_vargs[size()] gives: the read is outside the vector, so the
\* process ends there or the read gives whatever string the memory holds
PastTheEnd == { [crash |-> TRUE,  value |-> <<>>],
                [crash |-> FALSE, value |-> <<>>],
                [crash |-> FALSE, value |-> <<"~">>] }

\* parse_simpleshort of optionparser; past is what a read of
\* m_vargs[size()] gives.  The loop of parse() calls it with
\* iref < m_vargs.size(), and the branch that builds the message
\* "expected a value" does not throw it.
optionparser_parse_simpleshort(str, acc, past) ==
    LET idx == optionparser_find_decl_short(str)
    IN IF idx # npos
       THEN IF m_declarations[idx + 1].needvalue
            THEN IF acc.iref < Len(m_vargs)
                 THEN IF acc.iref + 1 < Len(m_vargs)
                      THEN optionparser_callback([acc EXCEPT !.iref = @ + 1], idx, m_vargs[acc.iref + 2])
                      ELSE IF past.crash
                      THEN [acc EXCEPT !.crashed = TRUE]
                      ELSE optionparser_callback([acc EXCEPT !.iref = @ + 1], idx, past.value)
                 ELSE acc
            ELSE optionparser_callback(acc, idx, <<>>)
       ELSE [acc EXCEPT !.err = optionparser_throwError("simpleshort: unknown option", <<str>>)]

\* the declarations on() is called with: (shortstr, longstr)
L_out       == [strs |-> << <<"-", "o", "?">>, <<"-", "-", "o", "u", "t", "=", "?">> >>,
                desc |-> "set output file name", fn |-> "user"]
L_verbose   == [strs |-> << <<"-", "v">>, <<"-", "-", "v", "e", "r", "b", "o", "s", "e">> >>,
                desc |-> "be verbose", fn |-> "user"]
L_no_mark   == [strs |-> << <<"-", "o", "?">>, <<"-", "-", "o", "u", "t">> >>,
                desc |-> "long spelling without =?", fn |-> "user"]
L_two_chars == [strs |-> << <<"-", "a", "b">>, <<"-", "-", "a", "b">> >>,
                desc |-> "short spelling of two characters", fn |-> "user"]

LegacyMenu == {L_out, L_verbose, L_no_mark, L_two_chars}

\* the arguments the parser is constructed with
LegacyArgs == { <<>>, <<A_o>>, <<A_o, A_x>>, <<A_v, A_o>>, <<A_x, A_o>>, <<A_ox>>, <<A_out_x>>,
                <<A_out>>, <<A_v>>, <<A_vv>>, <<A_vo>>, <<A_d>>, <<A_dashes, A_o>>,
                <<A_dashes, A_dashes, A_x>>, <<A_bogus>>, <<A_h, A_v>>, <<A_dash>> }

\* optionparser(const std::vector<std::string>& args): m_vargs = args, init()
InitLegacy ==
    /\ \E args \in LegacyArgs :
          /\ m_vargs = args
          /\ lastcall = [op |-> "optionparser", strs |-> args, desc |-> "", fn |-> ""]
    /\ m_positional = <<>>
    /\ m_declarations = <<optionparser_addDeclaration(HelpStrs[1], HelpStrs[2], "show this help", "help").decl>>
    /\ m_stopif_funcs = <<>>
    /\ m_dosoptsdeclared = FALSE
    /\ m_on_unknownoptfn = "null"
    /\ i = 0
    /\ stopparsing = FALSE
    /\ pc = "idle"
    /\ raised = NoError
    /\ calls = <<>>
    /\ unknown_seen = <<>>

\* on(shortstr, longstr, desc, fn) of optionparser
optionparser_on(shortstr, longstr, desc, fn) ==
    /\ pc = "idle"
    /\ Len(m_declarations) < MaxDecls + 1
    /\ Len(shortstr) >= 2 /\ Len(longstr) >= 2
    /\ LET r == optionparser_addDeclaration(shortstr, longstr, desc, fn)
       IN /\ m_declarations' = IF r.err = NoError THEN Append(m_declarations, r.decl) ELSE m_declarations
          /\ raised' = r.err
    /\ lastcall' = [op |-> "on", strs |-> <<shortstr, longstr>>, desc |-> desc, fn |-> fn]
    /\ UNCHANGED <<m_vargs, m_positional, m_stopif_funcs, m_dosoptsdeclared, m_on_unknownoptfn,
                   i, stopparsing, pc, calls, unknown_seen>>

\* parse() of optionparser up to the first test of its loop
optionparser_parse ==
    /\ pc = "idle"
    /\ i' = 0
    /\ stopparsing' = FALSE
    /\ pc' = IF Len(m_vargs) > 0 THEN "parsing" ELSE "done"
    /\ raised' = NoError
    /\ lastcall' = [op |-> "parse", strs |-> m_vargs, desc |-> "", fn |-> ""]
    /\ UNCHANGED <<m_vargs, m_positional, m_declarations, m_stopif_funcs, m_dosoptsdeclared,
                   m_on_unknownoptfn, calls, unknown_seen>>

\* the end of an iteration of parse() that left the index at iref
optionparser_parse_next(iref) ==
    /\ i' = iref + 1
    /\ pc' = IF iref + 1 < Len(m_vargs) THEN "parsing" ELSE "done"
    /\ raised' = NoError

\* one iteration of the loop of parse() of optionparser
optionparser_parse_step(past) ==
    /\ pc = "parsing"
    /\ i < Len(m_vargs)
    /\ LET arg == m_vargs[i + 1]
       IN IF arg = <<"-", "-">>
          THEN /\ stopparsing' = TRUE
               /\ optionparser_parse_next(i)
               /\ UNCHANGED <<m_positional, calls>>
          ELSE IF stopparsing \/ At(arg, 0) # "-"
          THEN /\ m_positional' = Append(m_positional, arg)
               /\ optionparser_parse_next(i)
               /\ UNCHANGED <<stopparsing, calls>>
          ELSE LET nodash == substr(arg, 1)
                   r == IF At(arg, 1) = "-"
                        THEN optionparser_parse_longoption(arg, optionparser_Acc(i))
                        ELSE IF Len(nodash) > 1
                        THEN optionparser_parse_multishort(nodash, 0, optionparser_Acc(i))
                        ELSE optionparser_parse_simpleshort(At(nodash, 0), optionparser_Acc(i), past)
               IN /\ calls' = calls \o r.calls
                  /\ UNCHANGED <<m_positional, stopparsing>>
                  /\ IF r.crashed
                     THEN /\ raised' = NoError
                          /\ pc' = "crashed"
                          /\ i' = r.iref
                     ELSE IF r.err # NoError
                     THEN /\ raised' = r.err
                          /\ pc' = "threw"
                          /\ i' = r.iref
                     ELSE IF r.exited
                     THEN /\ raised' = NoError
                          /\ pc' = "exited"
                          /\ i' = r.iref
                     ELSE optionparser_parse_next(r.iref)
    /\ UNCHANGED <<m_vargs, m_declarations, m_stopif_funcs, m_dosoptsdeclared,
                   m_on_unknownoptfn, lastcall, unknown_seen>>

NextLegacy ==
    \/ \E d \in LegacyMenu : optionparser_on(d.strs[1], d.strs[2], d.desc, d.fn)
    \/ optionparser_parse
    \/ \E past \in PastTheEnd : optionparser_parse_step(past)

SpecLegacy == InitLegacy /\ [][NextLegacy]_vars

(***************************************************************************)
(* C30.  The claim as stated, for the class optionparser: an iteration of  *)
(* parse() on a short option -c, c declared as needing a value, that is    *)
(* the last argument of the parser throws an error that says a value was   *)
(* expected, invokes no callback and reads nothing outside m_vargs.        *)
(***************************************************************************)
C30_AsStated ==
    [][(/\ pc = "parsing"
        /\ ~stopparsing
        /\ i = Len(m_vargs) - 1
        /\ Len(m_vargs[i + 1]) = 2
        /\ m_vargs[i + 1][1] = "-"
        /\ optionparser_find_decl_short(m_vargs[i + 1][2]) # npos
        /\ m_declarations[optionparser_find_decl_short(m_vargs[i + 1][2]) + 1].needvalue)
       => /\ pc' = "threw"
          /\ raised'.what = "simpleshort: expected a value"
          /\ calls' = calls]_vars

====
